---- MODULE Spec2Model ----
(***************************************************************************)
(* Synapse: the LLM orchestration pipeline.                                *)
(*   - POST /api/import and processJournalImport (src/lib/importAgent.ts)  *)
(*   - generateSearchTerms (src/lib/searchAgent.ts)                        *)
(* Text is modelled as sequences of one-character strings so that split,   *)
(* trim and the date regular expressions are computed, not assumed.        *)
(***************************************************************************)
EXTENDS Integers, Sequences, FiniteSets, TLC

(***************************************************************************)
(* Bounds of the model.                                                    *)
(***************************************************************************)
\* longest query enumerated exhaustively over QueryAlphabet
MaxQueryLen == 3
\* largest number of 3-letter words in the generated long queries
MaxWords == 8

(***************************************************************************)
(* String helpers (JavaScript String.prototype.split / trim / join).       *)
(***************************************************************************)
Digits == {"0", "1", "2", "3", "4", "5", "6", "7", "8", "9"}

\* characters String.prototype.trim removes, as far as a string of this module
\* can hold them: space, LF, TAB, CR, FF, and written as the characters
\* themselves U+000B (vertical tab), U+00A0 (no-break space), U+FEFF and
\* U+1680.  trim also removes U+2000-U+200A, U+2028, U+2029, U+202F, U+205F
\* and U+3000, which no string of a module can hold.
WhiteSpace == {" ", "\n", "\t", "\r", "\f", "", " ", "﻿", " "}

\* /\d{4}-\d{2}-\d{2}/ matched at position p of s
DateShapeAt(s, p) ==
    /\ p >= 1
    /\ p + 9 <= Len(s)
    /\ \A k \in 0..9 : IF k \in {4, 7} THEN s[p + k] = "-" ELSE s[p + k] \in Digits

\* a test every first line passes
IsDateFormatAny(s) == TRUE

\* /^\d{4}-\d{2}-\d{2}$/.test(s)
IsDateFormat(s) == Len(s) = 10 /\ DateShapeAt(s, 1)

RECURSIVE TrimLeft(_)
TrimLeft(s) == IF s # <<>> /\ Head(s) \in WhiteSpace THEN TrimLeft(Tail(s)) ELSE s

RECURSIVE TrimRight(_)
TrimRight(s) ==
    IF s # <<>> /\ s[Len(s)] \in WhiteSpace THEN TrimRight(SubSeq(s, 1, Len(s) - 1)) ELSE s

\* s.trim()
Trim(s) == TrimRight(TrimLeft(s))

\* s.split(c) for a one-character separator c; "".split(c) is [""]
RECURSIVE SplitFrom(_, _, _, _)
SplitFrom(s, c, p, cur) ==
    IF p > Len(s) THEN <<cur>>
    ELSE IF s[p] = c THEN <<cur>> \o SplitFrom(s, c, p + 1, <<>>)
    ELSE SplitFrom(s, c, p + 1, Append(cur, s[p]))

SplitOn(s, c) == SplitFrom(s, c, 1, <<>>)

\* parts.join(c)
RECURSIVE JoinWith(_, _)
JoinWith(parts, c) ==
    IF parts = <<>> THEN <<>>
    ELSE IF Len(parts) = 1 THEN parts[1]
    ELSE parts[1] \o <<c>> \o JoinWith(Tail(parts), c)

\* journalText.split(/\n(?=\d{4}-\d{2}-\d{2})/): cut at every newline that is
\* directly followed by a date-shaped prefix; the newline is consumed
RECURSIVE SplitBeforeDates(_, _, _)
SplitBeforeDates(s, p, cur) ==
    IF p > Len(s) THEN <<cur>>
    ELSE IF s[p] = "\n" /\ DateShapeAt(s, p + 1)
         THEN <<cur>> \o SplitBeforeDates(s, p + 1, <<>>)
    ELSE SplitBeforeDates(s, p + 1, Append(cur, s[p]))

\* xs.map(f) for f = trim
RECURSIVE MapTrim(_)
MapTrim(xs) == IF xs = <<>> THEN <<>> ELSE <<Trim(Head(xs))>> \o MapTrim(Tail(xs))

NonEmpty(s) == s # <<>>

\* importAgent.ts:213
ParseEntries(text) == SelectSeq(MapTrim(SplitBeforeDates(text, 1, <<>>)), NonEmpty)

\* importAgent.ts:228-229: const date = entryText.split('\n')[0].trim()
EntryDate(entryText) == Trim(SplitOn(entryText, "\n")[1])

\* importAgent.ts:230: lines.slice(1).join('\n')
EntryContent(entryText) == JoinWith(Tail(SplitOn(entryText, "\n")), "\n")


(***************************************************************************)
(* JavaScript Date: new Date("YYYY-MM-DD") as V8 parses it.  The ISO       *)
(* reading takes a month in 1..12 and a day in 1..31 and names midnight    *)
(* UTC of that day.  When the month or the day is outside its range the    *)
(* three numbers go to V8's legacy reading: a first number that cannot be  *)
(* a day makes them year, month, day again (and the date is invalid);      *)
(* otherwise they are month, day, year, a year below 50 counting from 2000 *)
(* and one below 100 from 1900, and the date names midnight of that day in *)
(* the zone of the process.  In both readings a day past the end of its    *)
(* month rolls over into the next month.  A date is the tuple              *)
(* <<year, month, day, "utc" or "local">>, an instant: midnight UTC of the *)
(* day, or midnight of the day on a clock away from UTC.  In a process     *)
(* whose clock is at UTC the legacy reading names midnight UTC too.        *)
(***************************************************************************)
\* the time zone of the server process; no step changes it
VARIABLE zone

\* the clock of the process that runs the import: at UTC, or at a fixed
\* offset east or west of it
ImportZones == {"utc", "east", "west"}

DigitVal(c) ==
    CASE c = "0" -> 0 [] c = "1" -> 1 [] c = "2" -> 2 [] c = "3" -> 3 [] c = "4" -> 4
      [] c = "5" -> 5 [] c = "6" -> 6 [] c = "7" -> 7 [] c = "8" -> 8 [] c = "9" -> 9

IsLeap(y) == (y % 4 = 0 /\ y % 100 # 0) \/ y % 400 = 0

DaysInMonth(y, m) ==
    IF m = 2 THEN (IF IsLeap(y) THEN 29 ELSE 28)
    ELSE IF m \in {4, 6, 9, 11} THEN 30 ELSE 31

InvalidDate == <<0, 0, 0, "invalid">>

IsMonth(x) == x \in 1..12

IsDay(x) == x \in 1..31

\* the day y-m-d with m in 1..12 and d in 1..31, a day past the end of the
\* month carried into the next month
MakeDay(y, m, d, kind) ==
    IF d <= DaysInMonth(y, m) THEN <<y, m, d, kind>>
    ELSE IF m = 12 THEN <<y + 1, 1, d - 31, kind>>
    ELSE <<y, m + 1, d - DaysInMonth(y, m), kind>>

\* the legacy reading of three numbers: local midnight, which on a clock at
\* UTC is midnight UTC
LegacyDate(tz, c0, c1, c2) ==
    IF ~IsDay(c0) THEN InvalidDate
    ELSE LET year == IF c2 <= 49 THEN c2 + 2000 ELSE c2 + 1900
             kind == IF tz = "utc" THEN "utc" ELSE "local"
         IN  IF IsMonth(c0) /\ IsDay(c1) THEN MakeDay(year, c0, c1, kind)
             ELSE InvalidDate

\* new Date(date) for a date string that passed IsDateFormat, in a process
\* whose clock is tz
NewDate(tz, date) ==
    LET y == DigitVal(date[1]) * 1000 + DigitVal(date[2]) * 100
               + DigitVal(date[3]) * 10 + DigitVal(date[4])
        m == DigitVal(date[6]) * 10 + DigitVal(date[7])
        d == DigitVal(date[9]) * 10 + DigitVal(date[10])
    IN  IF IsMonth(m) /\ IsDay(d) THEN MakeDay(y, m, d, "utc")
        ELSE LegacyDate(tz, y, m, d)

(***************************************************************************)
(* Categories as prisma.category.findMany() returns them.                  *)
(* description is a character sequence; hasDescription = FALSE is null.    *)
(***************************************************************************)
Cat(id, isDefault, hasDescription, description) ==
    [id |-> id, isDefault |-> isDefault,
     hasDescription |-> hasDescription, description |-> description]

CatDefault == Cat("cDefault", TRUE, TRUE, <<"D">>)
CatOther   == Cat("cOther", TRUE, FALSE, <<>>)
CatWork    == Cat("c1", FALSE, TRUE, <<"W", "o", "r", "k">>)
CatLife    == Cat("c2", FALSE, TRUE, <<"L">>)
CatEmpty   == Cat("c3", FALSE, TRUE, <<>>)
CatBlank   == Cat("c3", FALSE, TRUE, <<" ", "\t">>)
CatNoDesc  == Cat("c3", FALSE, FALSE, <<>>)

\* the category tables the runs are checked against
CategoryTables ==
    { <<>>,
      <<CatDefault>>,
      <<CatWork>>,
      <<CatOther, CatWork, CatLife>>,
      <<CatWork, CatEmpty>>,
      <<CatBlank, CatWork>>,
      <<CatDefault, CatNoDesc>> }

\* a filter that keeps the default categories too
IsAnyCategory(c) == c.isDefault \/ ~c.isDefault

\* importAgent.ts:189: categories.filter(c => !c.isDefault)
IsCustom(c) == ~c.isDefault
ClassifiableCategories(cats) == SelectSeq(cats, IsCustom)

\* a description check that forgets to trim
LacksDescriptionUntrimmed(c) == ~c.hasDescription \/ c.description = <<>>

\* importAgent.ts:198: c => !c.description?.trim()
LacksDescription(c) == ~c.hasDescription \/ Trim(c.description) = <<>>
CategoriesWithoutDescription(cats) == SelectSeq(cats, LacksDescription)

\* categories.map(c => c.id)
RECURSIVE CategoryIds(_)
CategoryIds(cats) ==
    IF cats = <<>> THEN <<>> ELSE <<Head(cats).id>> \o CategoryIds(Tail(cats))

SeqToSet(s) == {s[k] : k \in 1..Len(s)}


(***************************************************************************)
(* Model responses.  A JSON value is tagged with its JSON type; v holds    *)
(* the payload (0, "" or <<>> when the type carries none).                  *)
(***************************************************************************)
JStr(v)  == [t |-> "string", v |-> v]
JNum(n)  == [t |-> "number", v |-> n]
JNullN   == [t |-> "null", v |-> 0]
JNullS   == [t |-> "null", v |-> ""]
\* a string where a number is expected, e.g. "duration": "90"
JStrForNum == [t |-> "string", v |-> 0]

Act(description, duration, notes, tags, categoryId) ==
    [description |-> description, duration |-> duration, notes |-> notes,
     tags |-> tags, categoryId |-> categoryId]

\* tags as the model writes them: one comma-separated string
TagsGo     == <<"g", "o", ",", " ", "d", "b">>
TagsDup    == <<"g", "o", ",", ",", " ", "g", "o", " ">>
TagsNone   == <<>>

ActBug   == Act(JStr("Fixed bug"), JNum(90), JNullS, JStr(TagsGo), JStr("c1"))
ActRun   == Act(JStr("Ran 5km"), JNullN, JStr("park"), JStr(TagsDup), JStr("c1"))
ActRead  == Act(JStr("Read"), JNum(30), JNullS, JStr(TagsNone), JStr("c2"))
\* classification hallucinations: ids that were not supplied in the prompt
ActGhost == Act(JStr("Ghost"), JNum(5), JNullS, JStr(TagsNone), JStr("cX"))
ActDeflt == Act(JStr("Chores"), JNullN, JNullS, JStr(TagsNone), JStr("cDefault"))
\* schema violation: duration is a string
ActBadDuration == Act(JStr("Typed"), JStrForNum, JNullS, JStr(TagsNone), JStr("c1"))

\* parsed JSON documents: an object with or without the activities array
JsonDoc(hasActivities, acts) == [hasActivities |-> hasActivities, activities |-> acts]

\* what openai.chat.completions.create settles with.  A content is given by
\* what JSON.parse makes of it (importAgent.ts:102): the document it returns,
\* or the message of the SyntaxError it throws
Rejected(message) ==
    [settled |-> "rejected", message |-> message, finish_reason |-> "",
     hasContent |-> FALSE, isJson |-> FALSE, doc |-> JsonDoc(FALSE, <<>>)]
Resolved(finish_reason, hasContent, isJson, doc) ==
    [settled |-> "resolved", message |-> "", finish_reason |-> finish_reason,
     hasContent |-> hasContent, isJson |-> isJson, doc |-> doc]
Answer(acts) == Resolved("stop", TRUE, TRUE, JsonDoc(TRUE, acts))
NotJson(message) ==
    [Resolved("stop", TRUE, FALSE, JsonDoc(FALSE, <<>>)) EXCEPT !.message = message]

\* messages of the SyntaxError of JSON.parse.  The text is the engine's, not
\* the repository's; these are what V8 gives for the contents oops,
\* connection lost and {"network": (a document cut off)
SyntaxErrorMessages ==
    { "Unexpected token 'o', \"oops\" is not valid JSON",
      "Unexpected token 'c', \"connection lost\" is not valid JSON",
      "Unexpected end of JSON input" }

ImportCompletions ==
    { Rejected("no network"),
      Rejected("Connection error."),
      Rejected("400 Invalid JSON schema"),
      Resolved("stop", FALSE, FALSE, JsonDoc(FALSE, <<>>)),
      Resolved("stop", TRUE, TRUE, JsonDoc(FALSE, <<>>)),
      Answer(<<ActBadDuration>>),
      Answer(<<>>),
      Answer(<<ActBug>>),
      Answer(<<ActBug, ActRun>>),
      Answer(<<ActBug, ActGhost>>),
      Answer(<<ActBadDuration, ActGhost>>),
      Answer(<<ActDeflt>>),
      Resolved("length", TRUE, TRUE, JsonDoc(TRUE, <<ActRun>>)) }
    \cup { NotJson(message) : message \in SyntaxErrorMessages }

\* importAgent.ts:18-24 ProcessedActivitySchema
ProcessedActivitySchema(a) ==
    /\ a.description.t = "string"
    /\ a.duration.t \in {"number", "null"}
    /\ a.notes.t \in {"string", "null"}
    /\ a.tags.t = "string"
    /\ a.categoryId.t = "string"

\* a schema that looks for the activities key only
JournalImportSchemaLax(doc) == doc.hasActivities

\* a schema that wants at least one activity
JournalImportSchemaNonEmpty(doc) ==
    /\ doc.hasActivities
    /\ Len(doc.activities) >= 1
    /\ \A k \in 1..Len(doc.activities) : ProcessedActivitySchema(doc.activities[k])

\* importAgent.ts:26-28 JournalImportSchema.safeParse(parsedData).success
JournalImportSchema(doc) ==
    /\ doc.hasActivities
    /\ \A k \in 1..Len(doc.activities) : ProcessedActivitySchema(doc.activities[k])

\* a cross-check that trusts every id
InvalidCategoriesTrusting(acts, validCategoryIds) == <<>>

\* importAgent.ts:115-122: the categoryIds of the response that are not valid
RECURSIVE InvalidCategories(_, _)
InvalidCategories(acts, validCategoryIds) ==
    IF acts = <<>> THEN <<>>
    ELSE (IF Head(acts).categoryId.v \in validCategoryIds
          THEN <<>> ELSE <<Head(acts).categoryId.v>>)
         \o InvalidCategories(Tail(acts), validCategoryIds)

\* importAgent.ts:285: tags.split(',').map(t => t.trim()).filter(Boolean)
TagNames(tags) == SelectSeq(MapTrim(SplitOn(tags, ",")), NonEmpty)

(***************************************************************************)
(* Progress lines and the history of a run.  Every event carries the index *)
(* i of the entry being processed (0 outside the loop).                    *)
(***************************************************************************)
Event(ev, i, t, n, ids) == [ev |-> ev, i |-> i, t |-> t, n |-> n, ids |-> ids]
Line(i, t)         == Event("log", i, t, 0, <<>>)
LineN(i, t, n)     == Event("log", i, t, n, <<>>)
LineIds(i, t, ids) == Event("log", i, t, 0, ids)

\* importAgent.ts:137, one line per extracted activity
RECURSIVE ActivityDetails(_, _, _)
ActivityDetails(i, acts, index) ==
    IF acts = <<>> THEN <<>>
    ELSE <<LineN(i, "ActivityDetail", index)>> \o ActivityDetails(i, Tail(acts), index + 1)

\* String.prototype.includes on two strings
Includes(s, sub) ==
    \E p \in 1..(Len(s) + 1 - Len(sub)) : SubSeq(s, p, p + Len(sub) - 1) = sub

\* Array.prototype.join(', ') on a list of strings
RECURSIVE JoinIds(_)
JoinIds(ids) ==
    IF ids = <<>> THEN ""
    ELSE IF Len(ids) = 1 THEN ids[1]
    ELSE ids[1] \o ", " \o JoinIds(Tail(ids))

\* error.message.includes('network') || error.message.includes('connection')
MentionsNetwork(message) ==
    Includes(message, "network") \/ Includes(message, "connection")

\* importAgent.ts:142-154, the catch block of extractAndClassifyActivities
ExtractCatch(i, message) ==
    <<Line(i, "LLMProcessingError")>>
    \o (IF Includes(message, "JSON") THEN <<Line(i, "JSONHint")>> ELSE <<>>)
    \o (IF MentionsNetwork(message) THEN <<Line(i, "NetworkHint")>> ELSE <<>>)

\* importAgent.ts:91-155: what extractAndClassifyActivities does once the
\* model call has settled: the lines it enqueues and the value it returns
ExtractAndClassifyActivities(i, completion, categories) ==
    LET validCategoryIds == SeqToSet(CategoryIds(categories))
        acts    == completion.doc.activities
        invalid == InvalidCategories(acts, validCategoryIds)
        null    == [ok |-> FALSE, activities |-> <<>>]
    IN  IF completion.settled = "rejected"
        THEN [lines |-> ExtractCatch(i, completion.message),
              data |-> null]
        ELSE IF ~completion.hasContent
        THEN [lines |-> <<Line(i, "EmptyResponse")>>
                         \o ExtractCatch(i, "LLM returned an empty response."),
              data |-> null]
        ELSE IF ~completion.isJson
        THEN [lines |-> <<Line(i, "LLMCompleted"), Line(i, "ValidatingStructure")>>
                         \o ExtractCatch(i, completion.message),
              data |-> null]
        ELSE IF ~JournalImportSchema(completion.doc)
        THEN [lines |-> <<Line(i, "LLMCompleted"), Line(i, "ValidatingStructure"),
                          Line(i, "ResponseValidationFailed"), Line(i, "FieldErrors"),
                          Line(i, "FormErrors")>>
                         \o ExtractCatch(i, "LLM response did not match the required schema."),
              data |-> null]
        ELSE IF invalid # <<>>
        THEN [lines |-> <<Line(i, "LLMCompleted"), Line(i, "ValidatingStructure"),
                          LineIds(i, "InvalidCategoryIds", invalid),
                          LineIds(i, "ValidCategories", CategoryIds(categories))>>
                         \o ExtractCatch(i, "LLM hallucinated invalid categoryIds: "
                                             \o JoinIds(invalid)),
              data |-> null]
        ELSE [lines |-> <<Line(i, "LLMCompleted"), Line(i, "ValidatingStructure"),
                          LineN(i, "Extracted", Len(acts))>>
                         \o ActivityDetails(i, acts, 1),
              data |-> [ok |-> TRUE, activities |-> acts]]


(***************************************************************************)
(* Journal texts posted to /api/import.                                    *)
(***************************************************************************)
D1    == <<"2", "0", "2", "4", "-", "0", "7", "-", "2", "5">>
D2    == <<"2", "0", "2", "4", "-", "0", "7", "-", "2", "6">>
\* month 13: well-formed for the regular expression, Invalid Date for prisma
DBad  == <<"2", "0", "2", "4", "-", "1", "3", "-", "0", "1">>
\* June 31st rolls over to July 1st
DOver == <<"2", "0", "2", "4", "-", "0", "6", "-", "3", "1">>
DJul1 == <<"2", "0", "2", "4", "-", "0", "7", "-", "0", "1">>
\* a month out of range after a year that reads as a month: V8's legacy
\* reading makes it the 13th of April 2001
DLegacy == <<"0", "0", "0", "4", "-", "1", "3", "-", "0", "1">>
\* the 13th of April 2001 in the ISO reading
D2001 == <<"2", "0", "0", "1", "-", "0", "4", "-", "1", "3">>
NL    == <<"\n">>

JournalTexts ==
    { <<>>,
      <<"\n", " ">>,
      D1 \o NL \o <<"W">>,
      D1 \o NL \o <<"W">> \o NL \o D2 \o NL \o <<"L">>,
      <<"x">> \o NL \o D1 \o NL \o <<"W">>,
      D1 \o <<" ", "M">> \o NL \o <<"W">> \o NL \o D2,
      <<" ">> \o D1 \o NL \o <<"W">> \o NL \o D1 \o <<"\r">> \o NL \o <<"L">>,
      DBad \o NL \o <<"W">> \o NL \o D1 \o NL \o <<"W">>,
      DOver \o NL \o DJul1,
      DLegacy \o NL \o <<"W">>,
      DLegacy \o NL \o <<"W">> \o NL \o D2001 \o NL \o <<"L">> }

(***************************************************************************)
(* The store: day-entries keyed by date, activity rows, tag names.         *)
(***************************************************************************)
Row(journalEntryId, a) ==
    [journalEntryId |-> journalEntryId, description |-> a.description,
     duration |-> a.duration, notes |-> a.notes,
     tags |-> SeqToSet(TagNames(a.tags.v)), categoryId |-> a.categoryId.v]

ActOld == Act(JStr("Old"), JNum(15), JStr("before"), JStr(<<"o", "l", "d">>), JStr("c1"))

\* what earlier imports and the journal API may have left behind
\* table JournalEntry: id and unique date
EntryRow(id, date) == [id |-> id, date |-> date]

\* the id of the day-entry of a date, 0 when there is none
RECURSIVE FindEntry(_, _)
FindEntry(rows, date) ==
    IF rows = <<>> THEN 0
    ELSE IF Head(rows).date = date THEN Head(rows).id
    ELSE FindEntry(Tail(rows), date)

\* prisma.journalEntry.upsert({where: {date}, update: {}, create: {date}})
UpsertEntry(rows, date) ==
    IF FindEntry(rows, date) # 0 THEN rows
    ELSE Append(rows, EntryRow(Len(rows) + 1, date))

\* a deleteMany that removes nothing
DeleteNothing(rows, journalEntryId) == rows

\* prisma.activity.deleteMany({where: {journalEntryId}}): the rows that stay
DeleteWhere(rows, journalEntryId) ==
    LET OfOtherEntry(row) == row.journalEntryId # journalEntryId
    IN  SelectSeq(rows, OfOtherEntry)

\* what earlier imports and the journal API may have left behind; the dates
\* are ISO dates, the same instant on every clock
InitialStores ==
    { [journalEntries |-> <<>>, activities |-> <<>>],
      [journalEntries |-> <<EntryRow(1, NewDate("utc", D1)), EntryRow(2, NewDate("utc", DJul1))>>,
       activities |-> <<Row(1, ActOld), Row(1, ActBug), Row(2, ActOld)>>] }

(***************************************************************************)
(* The query planner: generateSearchTerms (src/lib/searchAgent.ts).        *)
(***************************************************************************)
QueryAlphabet == {"a", " ", "\t"}

RECURSIVE SeqsUpTo(_, _)
\* all sequences over alphabet of length at most n
SeqsUpTo(alphabet, n) ==
    IF n = 0 THEN {<<>>}
    ELSE LET shorter == SeqsUpTo(alphabet, n - 1)
         IN  shorter \cup {Append(q, c) : q \in shorter, c \in alphabet}

RECURSIVE Words(_)
\* n three-letter words separated by single spaces
Words(n) ==
    IF n = 1 THEN <<"a", "p", "i">> ELSE Words(n - 1) \o <<" ", "a", "p", "i">>

Queries ==
    SeqsUpTo(QueryAlphabet, MaxQueryLen)
    \cup {Words(n) : n \in 1..MaxWords}
    \cup { <<"a", "p", "i", "\t", "d", "b">>,
           <<"m", "y", " ", " ", "a", "p", "i", " ">>,
           <<"d", "b", "\n", "g", "o">> }

KwApi   == JStr(<<"a", "p", "i">>)
KwDb    == JStr(<<"d", "b">>)
KwEmpty == JStr(<<>>)
KwBlank == JStr(<<" ", "\t">>)
KwNum   == [t |-> "number", v |-> <<>>]

\* parsed JSON documents: an object with or without a keywords array
KeywordsDoc(hasKeywords, keywords) == [hasKeywords |-> hasKeywords, keywords |-> keywords]

\* what Promise.race([create(...), timer]) settles with
PlannerRejected(message) ==
    [settled |-> "rejected", message |-> message, finish_reason |-> "",
     hasContent |-> FALSE, isJson |-> FALSE, doc |-> KeywordsDoc(FALSE, <<>>)]
PlannerResolved(finish_reason, hasContent, isJson, doc) ==
    [settled |-> "resolved", message |-> "", finish_reason |-> finish_reason,
     hasContent |-> hasContent, isJson |-> isJson, doc |-> doc]
Keywords(kws) == PlannerResolved("stop", TRUE, TRUE, KeywordsDoc(TRUE, kws))

PlannerCompletions ==
    { PlannerRejected("LLM request timed out after 30 seconds"),
      PlannerRejected("Connection error."),
      PlannerResolved("stop", FALSE, FALSE, KeywordsDoc(FALSE, <<>>)),
      PlannerResolved("stop", TRUE, FALSE, KeywordsDoc(FALSE, <<>>)),
      PlannerResolved("stop", TRUE, TRUE, KeywordsDoc(FALSE, <<>>)),
      Keywords(<<KwApi, KwNum, KwDb>>),
      Keywords(<<KwApi, KwDb>>),
      Keywords(<<KwApi, KwDb, KwApi>>),
      Keywords(<<KwApi, KwEmpty, KwDb, KwBlank>>),
      Keywords(<<KwEmpty, KwBlank, KwEmpty>>),
      Keywords(<<KwApi, KwDb, KwApi, KwDb, KwApi, KwDb, KwApi>>),
      Keywords(<<KwApi, KwDb, KwApi, KwDb, KwApi, KwDb, KwApi, KwDb>>),
      PlannerResolved("length", TRUE, TRUE, KeywordsDoc(TRUE, <<KwApi, KwDb, KwApi>>)) }

\* searchAgent.ts:186-191 SearchTermsSchema.safeParse(parsedJson).success
SearchTermsSchema(doc) ==
    /\ doc.hasKeywords
    /\ \A k \in 1..Len(doc.keywords) : doc.keywords[k].t = "string"
    /\ Len(doc.keywords) >= 3
    /\ Len(doc.keywords) <= 7

\* searchAgent.ts:257: k => typeof k === 'string' && k.trim() !== ''
IsNonBlankKeyword(k) == k.t = "string" /\ Trim(k.v) # <<>>

RECURSIVE KeywordValues(_)
KeywordValues(kws) ==
    IF kws = <<>> THEN <<>> ELSE <<Head(kws).v>> \o KeywordValues(Tail(kws))

\* a fallback that keeps every word
LongerThanNothing(word) == Len(word) > 0

\* searchAgent.ts:264: word => word.length > 2
LongerThanTwo(word) == Len(word) > 2

\* searchAgent.ts:264: query.split(' ').filter(word => word.length > 2)
HeuristicKeywords(query) == SelectSeq(SplitOn(query, " "), LongerThanTwo)

\* searchAgent.ts:224-266: the value generateSearchTerms returns once the race
\* between the model call and the 30 s timer has settled
GenerateSearchTerms(query, completion) ==
    IF completion.settled = "rejected" THEN HeuristicKeywords(query)
    ELSE IF ~completion.hasContent THEN HeuristicKeywords(query)
    ELSE IF ~completion.isJson THEN HeuristicKeywords(query)
    ELSE IF ~SearchTermsSchema(completion.doc) THEN HeuristicKeywords(query)
    ELSE KeywordValues(SelectSeq(completion.doc.keywords, IsNonBlankKeyword))

VARIABLES
    searchPc,          \* position of one generateSearchTerms call
    query,             \* its argument
    plannerCompletion, \* history: what the race settled with
    keywords           \* the value it returned

searchVars == <<searchPc, query, plannerCompletion, keywords>>

SearchIdle ==
    /\ searchPc = "idle"
    /\ query = <<>>
    /\ plannerCompletion = PlannerRejected("")
    /\ keywords = <<>>

\* searchAgent.ts:224-240: the call, up to the await
SearchStart ==
    /\ searchPc = "idle"
    /\ \E q \in Queries : query' = q
    /\ searchPc' = "awaitPlanner"
    /\ UNCHANGED <<plannerCompletion, keywords>>

\* searchAgent.ts:242-265: the race settles and the function returns
SearchSettle ==
    /\ searchPc = "awaitPlanner"
    /\ \E completion \in PlannerCompletions :
          /\ plannerCompletion' = completion
          /\ keywords' = GenerateSearchTerms(query, completion)
    /\ searchPc' = "returned"
    /\ UNCHANGED query

VARIABLES
    pc,              \* position of the request / the import run
    stream,          \* state of the ReadableStream of the response
    journalText,     \* body.journalText
    fetched,         \* how prisma.category.findMany() settled
    categories,      \* the categories it returned
    classifiable,    \* classifiableCategories
    entries,         \* the parsed entries
    i,               \* loop index, 1-based
    j,               \* index of the activity being created, 1-based
    responses,       \* history: <<i, completion>> of every settled model call
    processedData,   \* activities extracted for entry i
    entryId,         \* journalEntry.id of the upserted day-entry
    successCount, failureCount, totalActivities,
    trace,           \* history: progress lines, model calls, store writes
    closeCalls,      \* calls of controller.close()
    journalEntries,  \* table JournalEntry (unique date)
    activities,      \* table Activity
    tagTable         \* table Tag (unique name)

request  == <<journalText, fetched, categories, classifiable, entries>>
counters == <<successCount, failureCount, totalActivities>>
store    == <<journalEntries, activities, tagTable>>
importVars == <<pc, stream, request, i, j, responses, processedData, entryId, counters,
                trace, closeCalls, store>>

IsLog(e) == e.ev = "log"
\* the progress log: the lines the stream delivered
log == SelectSeq(trace, IsLog)

\* controller.enqueue succeeds only while the stream is readable
Writable == stream = "readable"

\* enqueue(...) for each line, in order (store and model calls are recorded
\* in the same history)
Enqueue(lines) == trace' = trace \o lines

\* an enqueue on a stream that is no longer readable throws a TypeError; every
\* catch block on the way out enqueues too, so the error leaves processJournalImport
Throws ==
    /\ pc' = "thrown"
    /\ UNCHANGED <<i, j, processedData, counters>>

ImportInit ==
    /\ pc = "idle"
    /\ stream = "none"
    /\ journalText = <<>>
    /\ fetched = "no"
    /\ categories = <<>>
    /\ classifiable = <<>>
    /\ entries = <<>>
    /\ i = 0
    /\ j = 0
    /\ responses = <<>>
    /\ processedData = <<>>
    /\ entryId = 0
    /\ successCount = 0
    /\ failureCount = 0
    /\ totalActivities = 0
    /\ trace = <<>>
    /\ closeCalls = 0
    /\ \E st \in InitialStores :
          /\ journalEntries = st.journalEntries
          /\ activities = st.activities
    /\ tagTable = UNION {activities[k].tags : k \in 1..Len(activities)}

\* route.ts:7-40: POST parses the body, rejects a missing journalText with 400,
\* otherwise constructs the stream, whose start() begins the import
POST ==
    /\ pc = "idle"
    /\ \E text \in JournalTexts :
          /\ journalText' = text
          /\ IF text = <<>>
             THEN pc' = "bad_request" /\ UNCHANGED stream
             ELSE pc' = "start" /\ stream' = "readable"
    /\ UNCHANGED <<fetched, categories, classifiable, entries>>
    /\ UNCHANGED <<i, j, responses, processedData, entryId, counters, trace, closeCalls, store>>

\* importAgent.ts:167-175: the lines before the first await
ImportStart ==
    /\ pc = "start"
    /\ Enqueue(<<Line(0, "Starting"), LineN(0, "TextLength", Len(journalText)),
                 Line(0, "FetchingCategories")>>)
    /\ pc' = "awaitFetch"
    /\ UNCHANGED <<stream, request, i, j, responses, processedData, entryId, counters,
                   closeCalls, store>>

\* importAgent.ts:175-209: prisma.category.findMany() settles; category validation
FetchCategories ==
    /\ pc = "awaitFetch"
    /\ \E failed \in BOOLEAN, rows \in CategoryTables :
          LET custom  == ClassifiableCategories(rows)
              found   == <<LineN(0, "FoundCategories", Len(rows)),
                           LineN(0, "FoundCustom", Len(custom))>>
          IN  /\ fetched' = IF failed THEN "rejected" ELSE "resolved"
              /\ categories' = IF failed THEN <<>> ELSE rows
              /\ IF ~Writable
                 THEN Throws /\ UNCHANGED <<trace, classifiable>>
                 ELSE IF failed
                 THEN /\ Enqueue(<<Line(0, "DatabaseError")>>)
                      /\ pc' = "returned"
                      /\ UNCHANGED <<classifiable, i, j, processedData, counters>>
                 ELSE IF Len(custom) = 0
                 THEN /\ Enqueue(found \o <<Line(0, "ValidationFailed")>>)
                      /\ pc' = "returned"
                      /\ UNCHANGED <<classifiable, i, j, processedData, counters>>
                 ELSE IF Len(CategoriesWithoutDescription(custom)) > 0
                 THEN /\ Enqueue(found \o <<Line(0, "ValidationFailed")>>)
                      /\ pc' = "returned"
                      /\ UNCHANGED <<classifiable, i, j, processedData, counters>>
                 ELSE /\ Enqueue(found \o <<Line(0, "ValidationPassed")>>
                                 \o [k \in 1..Len(custom) |-> Line(0, "CategoryLine")])
                      /\ classifiable' = custom
                      /\ pc' = "parse"
                      /\ UNCHANGED <<i, j, processedData, counters>>
    /\ UNCHANGED <<stream, journalText, entries, responses, entryId, closeCalls, store>>

\* a parse step without the early return for an empty entry list
ParseFallsThrough ==
    /\ pc = "parse"
    /\ LET parsed == ParseEntries(journalText)
       IN  /\ entries' = parsed
           /\ Enqueue(<<Line(0, "ParsingEntries"), LineN(0, "FoundEntries", Len(parsed))>>
                      \o (IF Len(parsed) = 0 THEN <<Line(0, "NoValidEntries")>> ELSE <<>>))
           /\ pc' = IF Len(parsed) = 0 THEN "summary" ELSE "loop"
           /\ i' = 1
    /\ UNCHANGED <<stream, journalText, fetched, categories, classifiable>>
    /\ UNCHANGED <<j, responses, processedData, entryId, counters, closeCalls, store>>

\* importAgent.ts:211-224: split the text into entries
Parse ==
    /\ pc = "parse"
    /\ LET parsed == ParseEntries(journalText)
       IN  /\ entries' = parsed
           /\ IF Len(parsed) = 0
              THEN /\ Enqueue(<<Line(0, "ParsingEntries"), LineN(0, "FoundEntries", 0),
                                Line(0, "NoValidEntries")>>)
                   /\ pc' = "returned"
                   /\ UNCHANGED i
              ELSE /\ Enqueue(<<Line(0, "ParsingEntries"),
                                LineN(0, "FoundEntries", Len(parsed))>>)
                   /\ pc' = "loop"
                   /\ i' = 1
    /\ UNCHANGED <<stream, journalText, fetched, categories, classifiable>>
    /\ UNCHANGED <<j, responses, processedData, entryId, counters, closeCalls, store>>

\* the loop header: the next iteration, or the code after the loop
Continue == /\ i' = i + 1
            /\ pc' = IF i + 1 > Len(entries) THEN "summary" ELSE "loop"

\* a catch block that tries the same entry again
EntryCatchRetries ==
    IF Writable
    THEN /\ Enqueue(<<Line(i, "EntryDatabaseError")>>)
         /\ failureCount' = failureCount + 1
         /\ pc' = "loop"
         /\ UNCHANGED <<i, j, processedData, successCount, totalActivities>>
    ELSE Throws /\ UNCHANGED trace

\* a catch block that gives up on the whole run
EntryCatchReturns ==
    IF Writable
    THEN /\ Enqueue(<<Line(i, "EntryDatabaseError")>>)
         /\ failureCount' = failureCount + 1
         /\ pc' = "returned"
         /\ UNCHANGED <<i, j, processedData, successCount, totalActivities>>
    ELSE Throws /\ UNCHANGED trace

\* importAgent.ts:304-308: the catch block of one entry
EntryCatch ==
    IF Writable
    THEN /\ Enqueue(<<Line(i, "EntryDatabaseError")>>)
         /\ failureCount' = failureCount + 1
         /\ Continue
         /\ UNCHANGED <<j, processedData, successCount, totalActivities>>
    ELSE Throws /\ UNCHANGED trace

\* importAgent.ts:226-241 and 63-78: the head of one iteration, up to the model call
EntryHead ==
    /\ pc = "loop"
    /\ LET date == EntryDate(entries[i])
           head == <<LineN(i, "ProcessingEntry", i), Line(i, "ContentPreview")>>
       IN  IF ~IsDateFormat(date)
           THEN /\ Enqueue(head \o <<Line(i, "InvalidDateFormat")>>)
                /\ failureCount' = failureCount + 1
                /\ Continue
           ELSE /\ Enqueue(head \o <<Line(i, "SendingToLLM"),
                                     Event("llm", i, "request", 0, <<>>)>>)
                /\ pc' = "awaitLLM"
                /\ UNCHANGED <<i, failureCount>>
    /\ UNCHANGED <<stream, request, j, responses, processedData, entryId,
                   successCount, totalActivities, closeCalls, store>>

\* importAgent.ts:78-155 and 245-257: the model call settles
ExtractAndClassify ==
    /\ pc = "awaitLLM"
    /\ \E completion \in ImportCompletions :
          LET r == ExtractAndClassifyActivities(i, completion, classifiable)
              n == Len(r.data.activities)
          IN  /\ responses' = Append(responses, <<i, completion>>)
              /\ IF ~Writable
                 THEN Throws /\ UNCHANGED trace
                 ELSE IF ~r.data.ok
                 THEN /\ Enqueue(r.lines \o <<Line(i, "FailedToProcess")>>)
                      /\ failureCount' = failureCount + 1
                      /\ Continue
                      /\ UNCHANGED <<j, processedData, successCount, totalActivities>>
                 ELSE /\ Enqueue(r.lines \o <<LineN(i, "Saving", n)>>)
                      /\ processedData' = r.data.activities
                      /\ totalActivities' = totalActivities + n
                      /\ pc' = "awaitUpsert"
                      /\ UNCHANGED <<i, j, successCount, failureCount>>
    /\ UNCHANGED <<stream, request, entryId, closeCalls, store>>

\* importAgent.ts:259-264: prisma.journalEntry.upsert settles; an Invalid Date
\* is rejected by the client
Upsert ==
    /\ pc = "awaitUpsert"
    /\ \E failed \in BOOLEAN :
          LET date == NewDate(zone, EntryDate(entries[i]))
          IN  IF failed \/ date = InvalidDate
              THEN /\ EntryCatch
                   /\ UNCHANGED <<entryId, journalEntries>>
              ELSE /\ journalEntries' = UpsertEntry(journalEntries, date)
                   /\ entryId' = FindEntry(journalEntries', date)
                   /\ Enqueue(<<Event("upsert", i, "journalEntry", 0, <<>>)>>)
                   /\ pc' = "awaitDelete"
                   /\ UNCHANGED <<i, j, processedData, counters>>
    /\ UNCHANGED <<stream, request, responses, closeCalls, activities, tagTable>>

\* importAgent.ts:266-276 (and 301-302 when nothing was extracted):
\* prisma.activity.deleteMany settles
DeleteMany ==
    /\ pc = "awaitDelete"
    /\ \E failed \in BOOLEAN :
          LET kept    == DeleteWhere(activities, entryId)
              count   == Len(activities) - Len(kept)
              deleted == <<Event("deleteMany", i, "activity", count, <<>>)>>
              removed == IF count > 0 THEN <<LineN(i, "RemovedExisting", count)>> ELSE <<>>
              n       == Len(processedData)
          IN  IF failed
              THEN EntryCatch /\ UNCHANGED activities
              ELSE /\ activities' = kept
                   /\ IF ~Writable /\ (count > 0 \/ n = 0)
                      THEN Throws /\ trace' = trace \o deleted
                      ELSE IF n = 0
                      THEN /\ Enqueue(deleted \o removed \o <<LineN(i, "SavedEntry", n)>>)
                           /\ successCount' = successCount + 1
                           /\ Continue
                           /\ UNCHANGED <<j, processedData, failureCount, totalActivities>>
                      ELSE /\ Enqueue(deleted \o removed)
                           /\ j' = 1
                           /\ pc' = "awaitCreate"
                           /\ UNCHANGED <<i, processedData, counters>>
    /\ UNCHANGED <<stream, request, responses, entryId, closeCalls, journalEntries, tagTable>>

\* a failed create that takes the entry's earlier rows with it
FailedCreateRollsBack(rows, journalEntryId) == DeleteWhere(rows, journalEntryId)

\* importAgent.ts:276-299: the creates of one entry are separate calls, not a
\* transaction: a failed create leaves the table as the earlier ones made it
FailedCreateLeaves(rows, journalEntryId) == rows

\* importAgent.ts:276-302: prisma.activity.create for activity j settles
CreateActivity ==
    /\ pc = "awaitCreate"
    /\ \E failed \in BOOLEAN :
          LET row     == Row(entryId, processedData[j])
              created == <<Event("create", i, "activity", j, <<>>)>>
              n       == Len(processedData)
          IN  IF failed
              THEN /\ IF Writable
                      THEN /\ Enqueue(<<LineN(i, "FailedToSaveActivity", j),
                                        Line(i, "EntryDatabaseError")>>)
                           /\ failureCount' = failureCount + 1
                           /\ Continue
                           /\ UNCHANGED <<j, processedData, successCount, totalActivities>>
                      ELSE Throws /\ UNCHANGED trace
                   /\ activities' = FailedCreateLeaves(activities, entryId)
                   /\ UNCHANGED tagTable
              ELSE /\ activities' = Append(activities, row)
                   /\ tagTable' = tagTable \cup row.tags
                   /\ IF ~Writable
                      THEN Throws /\ trace' = trace \o created
                      ELSE IF j = n
                      THEN /\ Enqueue(created \o <<LineN(i, "SavedActivity", j),
                                                   LineN(i, "SavedEntry", n)>>)
                           /\ successCount' = successCount + 1
                           /\ Continue
                           /\ UNCHANGED <<j, processedData, failureCount, totalActivities>>
                      ELSE /\ Enqueue(created \o <<LineN(i, "SavedActivity", j)>>)
                           /\ j' = j + 1
                           /\ UNCHANGED <<pc, i, processedData, counters>>
    /\ UNCHANGED <<stream, request, responses, entryId, closeCalls, journalEntries>>

\* importAgent.ts:311-326: the final summary block
SummaryBlock ==
    <<Line(0, "SummaryHeader"),
      LineN(0, "SummarySucceeded", successCount),
      LineN(0, "SummaryFailed", failureCount),
      LineN(0, "SummaryTotalActivities", totalActivities),
      Line(0, "SummaryTime"),
      IF successCount > 0 THEN Line(0, "ImportCompleted") ELSE Line(0, "ImportFailed")>>

Summary ==
    /\ pc = "summary"
    /\ Enqueue(SummaryBlock)
    /\ pc' = "returned"
    /\ UNCHANGED <<stream, request, i, j, responses, processedData, entryId, counters,
                   closeCalls, store>>

\* a catch block that closes the stream itself, before finally does
RouteCatchCloses ==
    /\ pc = "thrown"
    /\ trace' = Append(trace, IF Writable THEN Line(0, "UnexpectedError")
                              ELSE Event("refused", 0, "UnexpectedError", 0, <<>>))
    /\ closeCalls' = closeCalls + 1
    /\ pc' = "caught"
    /\ UNCHANGED <<stream, request, i, j, responses, processedData, entryId, counters, store>>

\* route.ts:27-28: processJournalImport threw; the route enqueues one generic
\* failure line, which the stream refuses when it is no longer readable
RouteCatch ==
    /\ pc = "thrown"
    /\ trace' = Append(trace, IF Writable THEN Line(0, "UnexpectedError")
                              ELSE Event("refused", 0, "UnexpectedError", 0, <<>>))
    /\ pc' = "caught"
    /\ UNCHANGED <<stream, request, i, j, responses, processedData, entryId, counters,
                   closeCalls, store>>

\* route.ts:29-31: finally { controller.close() }
RouteFinally ==
    /\ pc \in {"returned", "caught"}
    /\ closeCalls' = closeCalls + 1
    /\ stream' = IF Writable THEN "closed" ELSE stream
    /\ pc' = "closed"
    /\ UNCHANGED <<request, i, j, responses, processedData, entryId, counters, trace, store>>

\* the run is suspended at an await
Awaiting == pc \in {"awaitFetch", "awaitLLM", "awaitUpsert", "awaitDelete", "awaitCreate"}

\* the consumer of the response cancels the stream (the client went away);
\* this can only happen while the run is suspended
ClientCancel ==
    /\ Awaiting
    /\ Writable
    /\ stream' = "cancelled"
    /\ UNCHANGED <<pc, request, i, j, responses, processedData, entryId, counters, trace,
                   closeCalls, store>>

(***************************************************************************)
(* The rest of the search pipeline (ReportViewer.tsx:498-705 holds the     *)
(* reranker and the synthesizer; journal/search/route.ts:45-52 calls them).*)
(***************************************************************************)
\* the longest candidate list tried
MaxCandidates == 21

\* ReportViewer.tsx:529
BATCH_SIZE == 10

\* ReportViewer.tsx:584: activities.slice(0, 15)
FallbackSize == 15

\* journal/search/route.ts:47: rankedActivities.slice(0, 20)
TopN == 20

\* ReportViewer.tsx:423-433 Activity; ids are opaque, modelled by numbers
Activity(id) == [id |-> id]

\* an id no stored activity has
GhostId == 0

CandidateCounts == {0, 1, 2, 10, 11, 16, MaxCandidates}

\* journal/search/route.ts:35-43: what findMany returns, ids all different and
\* in an order that is not the order of the ids
CandidateLists == {[k \in 1..n |-> Activity(n - k + 1)] : n \in CandidateCounts}

\* Array.prototype.slice(from, to) on a 1-based sequence
Slice(s, from, to) ==
    SubSeq(s, from + 1, IF to < Len(s) THEN to ELSE Len(s))

\* parsed JSON documents: an object with or without a ranked_ids array
RankDoc(hasRankedIds, ranked_ids) ==
    [hasRankedIds |-> hasRankedIds, ranked_ids |-> ranked_ids]

RankRejected(message) ==
    [settled |-> "rejected", message |-> message, finish_reason |-> "",
     hasContent |-> FALSE, isJson |-> FALSE, doc |-> RankDoc(FALSE, <<>>)]
RankResolved(finish_reason, hasContent, isJson, doc) ==
    [settled |-> "resolved", message |-> "", finish_reason |-> finish_reason,
     hasContent |-> hasContent, isJson |-> isJson, doc |-> doc]
Ranked(ids) == RankResolved("stop", TRUE, TRUE, RankDoc(TRUE, ids))

\* what the model call for one batch can settle with; all is the whole
\* candidate list, so that a later batch can be answered with an earlier id
RankCompletions(batch, all) ==
    LET first == JStr(batch[1].id)
        last  == JStr(batch[Len(batch)].id)
        early == JStr(all[1].id)
        ghost == JStr(GhostId)
    IN  { RankRejected("Connection error."),
          RankResolved("stop", FALSE, FALSE, RankDoc(FALSE, <<>>)),
          RankResolved("stop", TRUE, FALSE, RankDoc(FALSE, <<>>)),
          RankResolved("stop", TRUE, TRUE, RankDoc(FALSE, <<>>)),
          Ranked(<<first, JNum(1)>>),
          Ranked(<<>>),
          Ranked(<<last, first>>),
          Ranked(<<first, first>>),
          Ranked(<<ghost>>),
          Ranked(<<ghost, last>>),
          Ranked(<<early>>),
          RankResolved("length", TRUE, TRUE, RankDoc(TRUE, <<first>>)) }

\* ReportViewer.tsx:500-502 RerankSchema.safeParse(parsedJson).success
RerankSchema(doc) ==
    /\ doc.hasRankedIds
    /\ \A k \in 1..Len(doc.ranked_ids) : doc.ranked_ids[k].t = "string"

\* ids taken in the opposite order
IdValuesReversed(ids) == [k \in 1..Len(ids) |-> ids[Len(ids) + 1 - k].v]

RECURSIVE IdValues(_)
IdValues(ids) ==
    IF ids = <<>> THEN <<>> ELSE <<Head(ids).v>> \o IdValues(Tail(ids))

\* ReportViewer.tsx:541-577: the ids one batch adds to allRankedIds
BatchRankedIds(completion) ==
    IF completion.settled = "rejected" THEN <<>>
    ELSE IF ~completion.hasContent THEN <<>>
    ELSE IF ~completion.isJson THEN <<>>
    ELSE IF ~RerankSchema(completion.doc) THEN <<>>
    ELSE IdValues(completion.doc.ranked_ids)

\* ReportViewer.tsx:587: new Map(activities.map(a => [a.id, a])).has(id)
MapHas(acts, id) == \E k \in 1..Len(acts) : acts[k].id = id

\* ReportViewer.tsx:587-589: activityMap.get(id); a later entry with the same
\* key replaces an earlier one
MapGet(acts, id) ==
    acts[CHOOSE k \in 1..Len(acts) :
            /\ acts[k].id = id
            /\ \A m \in (k + 1)..Len(acts) : acts[m].id # id]

\* a lookup that takes every id for a candidate's
LookupTrusting(ids, acts) == [k \in 1..Len(ids) |-> Activity(ids[k])]

\* ReportViewer.tsx:588-590: ids.map(id => activityMap.get(id)).filter(Boolean)
RECURSIVE Lookup(_, _)
Lookup(ids, acts) ==
    IF ids = <<>> THEN <<>>
    ELSE (IF MapHas(acts, Head(ids)) THEN <<MapGet(acts, Head(ids))>> ELSE <<>>)
         \o Lookup(Tail(ids), acts)

\* ReportViewer.tsx:580-592: what rerankActivities returns after the loop
RerankResult(ids, acts) ==
    IF Len(ids) = 0 THEN Slice(acts, 0, FallbackSize) ELSE Lookup(ids, acts)

\* parsed JSON documents for the summary: mainSummary is a tagged value or
\* undefined; sections and timeSpent are absent, well-formed or ill-formed;
\* extra says whether the object carries a key the schema does not know
SummaryDoc(mainSummary, sections, timeSpent, extra) ==
    [mainSummary |-> mainSummary, sections |-> sections,
     timeSpent |-> timeSpent, extra |-> extra]

JUndefined == [t |-> "undefined", v |-> ""]

\* a number where the summary text is expected
JNumForStr == [t |-> "number", v |-> ""]

\* ReportViewer.tsx:651-653
NotFoundSummary ==
    SummaryDoc(JStr("I couldn't find any activities related to your query. Please try different search terms."),
               "undefined", "undefined", FALSE)

\* ReportViewer.tsx:701-703
ErrorSummary ==
    SummaryDoc(JStr("I encountered an error while trying to summarize the results. Please try again."),
               "undefined", "undefined", FALSE)

SummaryRejected(message) ==
    [settled |-> "rejected", message |-> message, finish_reason |-> "",
     hasContent |-> FALSE, isJson |-> FALSE,
     doc |-> SummaryDoc(JUndefined, "undefined", "undefined", FALSE)]
SummaryResolved(finish_reason, hasContent, isJson, doc) ==
    [settled |-> "resolved", message |-> "", finish_reason |-> finish_reason,
     hasContent |-> hasContent, isJson |-> isJson, doc |-> doc]
Summarized(doc) == SummaryResolved("stop", TRUE, TRUE, doc)

\* what Promise.race([create(...), timer]) settles with
SummaryCompletions ==
    { SummaryRejected("LLM summary request timed out after 180 seconds"),
      SummaryRejected("Connection error."),
      SummaryResolved("stop", FALSE, FALSE, SummaryDoc(JUndefined, "undefined", "undefined", FALSE)),
      SummaryResolved("stop", TRUE, FALSE, SummaryDoc(JUndefined, "undefined", "undefined", FALSE)),
      Summarized(SummaryDoc(JUndefined, "valid", "undefined", FALSE)),
      Summarized(SummaryDoc(JNumForStr, "undefined", "undefined", FALSE)),
      Summarized(SummaryDoc(JStr("answer"), "invalid", "undefined", FALSE)),
      Summarized(SummaryDoc(JStr("answer"), "valid", "invalid", FALSE)),
      Summarized(SummaryDoc(JStr("answer"), "undefined", "undefined", FALSE)),
      Summarized(SummaryDoc(JStr("answer"), "valid", "valid", TRUE)),
      SummaryResolved("length", TRUE, TRUE, SummaryDoc(JStr("ans"), "undefined", "undefined", FALSE)) }

\* a schema that looks at mainSummary only
SummarySchemaLax(doc) ==
    doc.mainSummary.t = "string"

\* ReportViewer.tsx:410-420 SummarySchema.safeParse(parsedData).success
SummarySchema(doc) ==
    /\ doc.mainSummary.t = "string"
    /\ doc.sections \in {"undefined", "valid"}
    /\ doc.timeSpent \in {"undefined", "valid"}

\* ReportViewer.tsx:697 validationResult.data: z.object drops unknown keys
SummaryData(doc) == [doc EXCEPT !.extra = FALSE]

\* ReportViewer.tsx:681-704: the value generateSummary returns once the race
\* between the model call and the 180 s timer has settled
GenerateSummary(completion) ==
    IF completion.settled = "rejected" THEN ErrorSummary
    ELSE IF ~completion.hasContent THEN ErrorSummary
    ELSE IF ~completion.isJson THEN ErrorSummary
    ELSE IF ~SummarySchema(completion.doc) THEN ErrorSummary
    ELSE SummaryData(completion.doc)

VARIABLES
    rankPc,            \* position of the pipeline
    candidates,        \* candidateActivities, the argument of rerankActivities
    batchStart,        \* i of the batch loop
    allRankedIds,      \* the accumulator
    rankRequests,      \* history: the batch of every model call issued
    rankCompletions,   \* history: what every model call settled with
    rankedActivities,  \* the value rerankActivities returned
    topActivities,     \* the argument of generateSummary
    summaryRequests,   \* history: number of summary model calls issued
    summaryCompletion, \* history: what the summary race settled with
    summary            \* the value generateSummary returned

rankVars == <<rankPc, candidates, batchStart, allRankedIds, rankRequests,
              rankCompletions, rankedActivities, topActivities,
              summaryRequests, summaryCompletion, summary>>

RankIdle ==
    /\ rankPc = "idle"
    /\ candidates = <<>>
    /\ batchStart = 0
    /\ allRankedIds = <<>>
    /\ rankRequests = <<>>
    /\ rankCompletions = <<>>
    /\ rankedActivities = <<>>
    /\ topActivities = <<>>
    /\ summaryRequests = 0
    /\ summaryCompletion = SummaryRejected("")
    /\ summary = ErrorSummary

\* journal/search/route.ts:35-46 and ReportViewer.tsx:524-542: the candidates
\* are fetched and rerankActivities runs up to its first await
RerankCall ==
    /\ rankPc = "idle"
    /\ \E acts \in CandidateLists :
          /\ candidates' = acts
          /\ IF Len(acts) = 0
             THEN /\ rankPc' = "ranked"
                  /\ rankRequests' = rankRequests
             ELSE /\ rankPc' = "awaitBatch"
                  /\ rankRequests' = <<Slice(acts, 0, BATCH_SIZE)>>
    /\ UNCHANGED <<batchStart, allRankedIds, rankCompletions, rankedActivities,
                   topActivities, summaryRequests, summaryCompletion, summary>>

\* a batch whose failure ends the loop
RerankBatchAborting ==
    /\ rankPc = "awaitBatch"
    /\ \E completion \in RankCompletions(rankRequests[Len(rankRequests)], candidates) :
          LET ids == allRankedIds \o BatchRankedIds(completion)
              next == batchStart + BATCH_SIZE
              more == next < Len(candidates) /\ completion.settled = "resolved"
          IN  /\ rankCompletions' = Append(rankCompletions, completion)
              /\ allRankedIds' = ids
              /\ batchStart' = next
              /\ IF more
                 THEN /\ rankRequests' = Append(rankRequests,
                              Slice(candidates, next, next + BATCH_SIZE))
                      /\ rankPc' = "awaitBatch"
                      /\ UNCHANGED rankedActivities
                 ELSE /\ rankedActivities' = RerankResult(ids, candidates)
                      /\ rankPc' = "ranked"
                      /\ UNCHANGED rankRequests
    /\ UNCHANGED <<candidates, topActivities, summaryRequests,
                   summaryCompletion, summary>>

\* ReportViewer.tsx:535-592: the model call of one batch settles, the loop
\* goes to the next batch and its await, or ends and the function returns
RerankBatch ==
    /\ rankPc = "awaitBatch"
    /\ \E completion \in RankCompletions(rankRequests[Len(rankRequests)], candidates) :
          LET ids == allRankedIds \o BatchRankedIds(completion)
              next == batchStart + BATCH_SIZE
              more == next < Len(candidates)
          IN  /\ rankCompletions' = Append(rankCompletions, completion)
              /\ allRankedIds' = ids
              /\ batchStart' = next
              /\ IF more
                 THEN /\ rankRequests' = Append(rankRequests,
                              Slice(candidates, next, next + BATCH_SIZE))
                      /\ rankPc' = "awaitBatch"
                      /\ UNCHANGED rankedActivities
                 ELSE /\ rankedActivities' = RerankResult(ids, candidates)
                      /\ rankPc' = "ranked"
                      /\ UNCHANGED rankRequests
    /\ UNCHANGED <<candidates, topActivities, summaryRequests,
                   summaryCompletion, summary>>

\* a synthesizer that asks the model whatever the list holds
SummaryCallAlways ==
    /\ rankPc = "ranked"
    /\ topActivities' = Slice(rankedActivities, 0, TopN)
    /\ rankPc' = "awaitSummary"
    /\ summaryRequests' = summaryRequests + 1
    /\ UNCHANGED summary
    /\ UNCHANGED <<candidates, batchStart, allRankedIds, rankRequests,
                   rankCompletions, rankedActivities, summaryCompletion>>

\* journal/search/route.ts:47-50 and ReportViewer.tsx:649-679: the top
\* activities are handed to generateSummary, which runs up to its await or
\* returns at once on an empty list (and the route answers, route.ts:52)
SummaryCall ==
    /\ rankPc = "ranked"
    /\ topActivities' = Slice(rankedActivities, 0, TopN)
    /\ IF Len(Slice(rankedActivities, 0, TopN)) = 0
       THEN /\ summary' = NotFoundSummary
            /\ rankPc' = "responded"
            /\ UNCHANGED summaryRequests
       ELSE /\ rankPc' = "awaitSummary"
            /\ summaryRequests' = summaryRequests + 1
            /\ UNCHANGED summary
    /\ UNCHANGED <<candidates, batchStart, allRankedIds, rankRequests,
                   rankCompletions, rankedActivities, summaryCompletion>>

\* ReportViewer.tsx:681-704 and journal/search/route.ts:52: the race settles,
\* generateSummary returns and the route answers
SummarySettle ==
    /\ rankPc = "awaitSummary"
    /\ \E completion \in SummaryCompletions :
          /\ summaryCompletion' = completion
          /\ summary' = GenerateSummary(completion)
    /\ rankPc' = "responded"
    /\ UNCHANGED <<candidates, batchStart, allRankedIds, rankRequests,
                   rankCompletions, rankedActivities, topActivities,
                   summaryRequests>>


(***************************************************************************)
(* Weekly reports: reportAgent.ts generateWeeklyReport and POST            *)
(* /api/reports (app/api/reports/route.ts).  A date is a day number; day 0 *)
(* is a Monday.                                                            *)
(***************************************************************************)
\* the last day a request or an activity can name
MaxDay == 20

\* the first day at whose midnight UTC a zone that changes its offset in
\* these weeks has the new one: the Monday after the Sunday of the change
SwitchDay == 14

\* getDay, getDate, setDate and setHours read and write local time, so what
\* getWeekBoundaries gives depends on the time zone of the process: at or
\* east of UTC all year, west of it all year, or west of it for a part of
\* the year only (Atlantic/Azores is an hour behind UTC in winter and at UTC
\* in summer): behind until the clocks go forward, or from when they go back
Zones == {"utc", "west", "spring", "autumn"}

\* the local clock is behind UTC at midnight UTC of day d
Behind(tz, d) ==
    \/ tz = "west"
    \/ tz = "spring" /\ d < SwitchDay
    \/ tz = "autumn" /\ d >= SwitchDay

\* new Date("YYYY-MM-DD") is midnight UTC of day d; the local calendar day of
\* that instant is d, and where the clock is behind UTC the day before
LocalDay(tz, d) == IF Behind(tz, d) THEN d - 1 ELSE d

\* Date.prototype.getDay(): 0 is Sunday
GetDay(tz, d) == (LocalDay(tz, d) + 1) % 7

\* reports/route.ts:9-22 getWeekBoundaries(date).startDate: local midnight of
\* the Monday, named by its local day
WeekStart(tz, d) ==
    LocalDay(tz, d) - GetDay(tz, d) + (IF GetDay(tz, d) = 0 THEN -6 ELSE 1)

\* reports/route.ts:17-19 getWeekBoundaries(date).endDate: the last
\* millisecond of the local Sunday
WeekEnd(tz, d) == WeekStart(tz, d) + 6

Days == {7, 9, 13, 14, MaxDay}

Weeks == {WeekStart(tz, d) : tz \in Zones, d \in Days}

\* body.date: absent (or empty), a string new Date cannot read, or a day
NoDate      == [given |-> FALSE, valid |-> FALSE, day |-> 0]
BadDate     == [given |-> TRUE, valid |-> FALSE, day |-> 0]
DateOf(d)   == [given |-> TRUE, valid |-> TRUE, day |-> d]

\* reports/route.ts:53-54: request bodies
ReportBodies ==
    {[type |-> "MONTHLY", date |-> DateOf(7)]}
    \cup {[type |-> "WEEKLY", date |-> d] : d \in {NoDate, BadDate} \cup {DateOf(d) : d \in Days}}

\* one element of keyActivities; category is a key the schema does not know
KeyActivity(categoryName, category) ==
    [categoryName |-> categoryName, category |-> category]

\* parsed JSON documents for the report: the title as a tagged value, the
\* keyActivities array, and whether every other field is well-formed
ReportDoc(title, keyActivities, rest) ==
    [title |-> title, keyActivities |-> keyActivities, rest |-> rest]

KeyThree == <<KeyActivity("Professional", "undefined"),
              KeyActivity("Life", "undefined"),
              KeyActivity("Project", "undefined")>>
KeyWork  == <<KeyActivity("Professional", "WORK"),
              KeyActivity("Life", "LIFE"),
              KeyActivity("Project", "undefined")>>

ReportRejected(message) ==
    [settled |-> "rejected", message |-> message, finish_reason |-> "",
     hasContent |-> FALSE, isJson |-> FALSE,
     doc |-> ReportDoc(JUndefined, <<>>, "invalid")]
ReportResolved(finish_reason, hasContent, isJson, doc) ==
    [settled |-> "resolved", message |-> "", finish_reason |-> finish_reason,
     hasContent |-> hasContent, isJson |-> isJson, doc |-> doc]
Reported(doc) == ReportResolved("stop", TRUE, TRUE, doc)

\* what Promise.race([create(...), timer]) settles with
ReportCompletions ==
    { ReportRejected("LLM report generation timed out after 180 seconds"),
      ReportResolved("stop", FALSE, FALSE, ReportDoc(JUndefined, <<>>, "invalid")),
      ReportResolved("stop", TRUE, FALSE, ReportDoc(JUndefined, <<>>, "invalid")),
      Reported(ReportDoc(JUndefined, KeyThree, "valid")),
      Reported(ReportDoc(JStr("Week"), SubSeq(KeyThree, 1, 2), "valid")),
      Reported(ReportDoc(JStr("Week"), KeyThree \o KeyThree, "valid")),
      Reported(ReportDoc(JStr("Week"), KeyThree, "invalid")),
      Reported(ReportDoc(JStr("Week"), KeyThree, "valid")),
      Reported(ReportDoc(JStr("Week"), KeyWork, "valid")),
      ReportResolved("length", TRUE, TRUE, ReportDoc(JStr("We"), KeyThree, "valid")) }

\* reportAgent.ts:12-33 WeeklyReportSchema.safeParse(parsedData).success
WeeklyReportSchema(doc) ==
    /\ doc.title.t = "string"
    /\ Len(doc.keyActivities) >= 3
    /\ Len(doc.keyActivities) <= 5
    /\ doc.rest = "valid"

\* reportAgent.ts:113 validationResult.data: z.object drops unknown keys
WeeklyReportData(doc) ==
    [doc EXCEPT !.keyActivities =
        [k \in 1..Len(doc.keyActivities) |->
            KeyActivity(doc.keyActivities[k].categoryName, "undefined")]]

\* the value null
Null == [isNull |-> TRUE, content |-> ReportDoc(JUndefined, <<>>, "invalid")]
Content(doc) == [isNull |-> FALSE, content |-> doc]

\* an agent that hands on whatever parses
GenerateWeeklyReportUnvalidated(completion) ==
    IF completion.settled = "rejected" THEN Null
    ELSE IF ~completion.hasContent THEN Null
    ELSE IF ~completion.isJson THEN Null
    ELSE Content(WeeklyReportData(completion.doc))

\* reportAgent.ts:98-118: the value generateWeeklyReport returns once the
\* race between the model call and the 180 s timer has settled
GenerateWeeklyReport(completion) ==
    IF completion.settled = "rejected" THEN Null
    ELSE IF ~completion.hasContent THEN Null
    ELSE IF ~completion.isJson THEN Null
    ELSE IF ~WeeklyReportSchema(completion.doc) THEN Null
    ELSE Content(WeeklyReportData(completion.doc))

\* reports/route.ts:104-107: the category rewrite of keyActivities
FixCategories(doc) ==
    [doc EXCEPT !.keyActivities =
        [k \in 1..Len(doc.keyActivities) |->
            KeyActivity(doc.keyActivities[k].categoryName,
                        IF doc.keyActivities[k].category = "WORK"
                        THEN "PROFESSIONAL"
                        ELSE doc.keyActivities[k].category)]]

\* unnamed/part_000:283-294 model Report; status NONE is the absence of a row
\* for that type and startDate
NoReport == [status |-> "NONE", endDate |-> 0,
             content |-> ReportDoc(JUndefined, <<>>, "invalid")]
ReportRow(status, endDate, content) ==
    [status |-> status, endDate |-> endDate, content |-> content]

OldContent == ReportDoc(JStr("Old"), KeyThree, "valid")

\* the rows a week can start with
InitialRows(w) ==
    { NoReport,
      ReportRow("PENDING", w + 6, NoReport.content),
      ReportRow("FAILED", w + 6, NoReport.content),
      ReportRow("COMPLETED", w + 6, OldContent) }

\* the days that hold activities when the request arrives
InitialActivityDays == { {}, {9}, {7, 14}, {13, 14}, {MaxDay} }

\* reports/route.ts:75-85: the days of the week's activities, one activity a
\* day.  The date of an entry is midnight UTC of its day, and it is compared
\* with the local boundaries of the week: local midnight of the Monday and
\* the last millisecond of the local Sunday.  The entry is in the week when
\* the local day of its own instant is, so a week in which the clocks change
\* holds six or eight entry days
ActivitiesOfWeek(tz, days, startDate, endDate) ==
    {d \in days : LocalDay(tz, d) >= startDate /\ LocalDay(tz, d) <= endDate}

\* the answers of the route
Answer400 == [status |-> 400, report |-> NoReport]
Answer404 == [status |-> 404, report |-> NoReport]
Answer500 == [status |-> 500, report |-> NoReport]
AnswerReport(status, row) == [status |-> status, report |-> row]

\* a lookup that never finds a report
FindNothing(rows, startDate) == FALSE

\* reports/route.ts:66-69: findFirst({type: 'WEEKLY', startDate, status: 'COMPLETED'})
FindCompleted(rows, startDate) == rows[startDate].status = "COMPLETED"

\* reports/route.ts:92-96: upsert on (type, startDate)
UpsertPending(rows, startDate, endDate) ==
    [rows EXCEPT ![startDate] =
        IF @.status = "NONE"
        THEN ReportRow("PENDING", endDate, NoReport.content)
        ELSE [@ EXCEPT !.status = "PENDING"]]

PostIds == {1, 2}

\* the state of one POST /api/reports: its position, what it read from the
\* body (startDate, whether the date was readable), the value the agent
\* returned to it, its answer, and the history of its model calls and writes
Post(pcOfPost, valid, startDate, content, answer, calls, writes) ==
    [pc |-> pcOfPost, valid |-> valid, start |-> startDate, content |-> content,
     answer |-> answer, calls |-> calls, writes |-> writes]

NoAnswer == [status |-> 0, report |-> NoReport]

VARIABLES
    reportRows,       \* table Report: the WEEKLY row of every week start
    activityDays,     \* the days that hold activities
    posts,            \* the POST /api/reports requests
    agentPc,          \* position of a generateWeeklyReport call made on its own
    agentInput,       \* its argument
    reportRequests,   \* history: number of model calls it issued
    reportCompletion, \* history: what its race settled with
    reportContent     \* the value it returned

agentVars == <<agentPc, agentInput, reportRequests, reportCompletion, reportContent>>

reportVars == <<zone, reportRows, activityDays, posts, agentVars>>

ReportQuiet ==
    /\ reportRows = [w \in Weeks |-> NoReport]
    /\ activityDays = {}
    /\ posts = [p \in PostIds |-> Post("idle", FALSE, 0, Null, NoAnswer, 0, 0)]
    /\ agentPc = "idle"
    /\ agentInput = {}
    /\ reportRequests = 0
    /\ reportCompletion = ReportRejected("")
    /\ reportContent = Null

ReportIdle == zone = "utc" /\ ReportQuiet

\* reportAgent.ts:69-96: generateWeeklyReport called on its own, up to its
\* await, or to its return on an empty list
GenerateWeeklyReportCall ==
    /\ agentPc = "idle"
    /\ \A p \in PostIds : posts[p].pc = "idle"
    /\ \E acts \in {{}, {9}} :
          /\ agentInput' = acts
          /\ IF acts = {}
             THEN /\ agentPc' = "returned"
                  /\ reportContent' = Null
                  /\ UNCHANGED reportRequests
             ELSE /\ agentPc' = "awaitModel"
                  /\ reportRequests' = reportRequests + 1
                  /\ UNCHANGED reportContent
    /\ UNCHANGED <<reportRows, activityDays, posts, reportCompletion>>

\* reportAgent.ts:98-118: the race settles and generateWeeklyReport returns
AgentSettle ==
    /\ agentPc = "awaitModel"
    /\ \E completion \in ReportCompletions :
          /\ reportCompletion' = completion
          /\ reportContent' = GenerateWeeklyReport(completion)
    /\ agentPc' = "returned"
    /\ UNCHANGED <<reportRows, activityDays, posts, agentInput, reportRequests>>

\* request p answers and is over
Responds(p, answer) ==
    posts' = [posts EXCEPT ![p].pc = "responded", ![p].answer = answer]

\* the catch at reports/route.ts:125-128: a rejected store call answers 500
\* and writes nothing
PostCatch(p) ==
    /\ Responds(p, Answer500)
    /\ UNCHANGED reportRows

\* reports/route.ts:53-63: request.json() settles: a body that is not JSON
\* rejects it and the catch answers 500; otherwise the 400 answers, or the
\* week boundaries of the date
PostReceive(p) ==
    /\ posts[p].pc = "idle"
    /\ agentPc = "idle"
    /\ \E parsed \in BOOLEAN, body \in ReportBodies :
          IF ~parsed
          THEN Responds(p, Answer500)
          ELSE IF body.type # "WEEKLY" \/ ~body.date.given
          THEN Responds(p, Answer400)
          ELSE posts' = [posts EXCEPT
                           ![p].pc = "findFirst",
                           ![p].valid = body.date.valid,
                           ![p].start = IF body.date.valid
                                        THEN WeekStart(zone, body.date.day) ELSE 0]
    /\ UNCHANGED <<reportRows, activityDays>>

\* reports/route.ts:66-72: findFirst for a COMPLETED report of the week, which
\* is the answer when there is one.  The boundaries of an unreadable date are
\* Invalid Dates: the store rejects the query or finds nothing with it.
PostFindFirst(p) ==
    /\ posts[p].pc = "findFirst"
    /\ \E rejected \in BOOLEAN :
          IF rejected THEN Responds(p, Answer500)
          ELSE IF posts[p].valid /\ FindCompleted(reportRows, posts[p].start)
          THEN Responds(p, AnswerReport(200, reportRows[posts[p].start]))
          ELSE posts' = [posts EXCEPT ![p].pc = "findMany"]
    /\ UNCHANGED <<reportRows, activityDays>>

\* reports/route.ts:75-89: findMany of the week's activities; 404 for none,
\* and no entry is within Invalid Dates
PostFindMany(p) ==
    /\ posts[p].pc = "findMany"
    /\ \E rejected \in BOOLEAN :
          IF rejected THEN Responds(p, Answer500)
          ELSE IF ~posts[p].valid
                  \/ ActivitiesOfWeek(zone, activityDays, posts[p].start,
                                      posts[p].start + 6) = {}
          THEN Responds(p, Answer404)
          ELSE posts' = [posts EXCEPT ![p].pc = "upsert"]
    /\ UNCHANGED <<reportRows, activityDays>>

\* reports/route.ts:92-99 and reportAgent.ts:69-96: the upsert that creates
\* the row as PENDING or sets the status of the existing row to PENDING, then
\* generateWeeklyReport up to its await
PostUpsert(p) ==
    /\ posts[p].pc = "upsert"
    /\ \E rejected \in BOOLEAN :
          IF rejected THEN PostCatch(p)
          ELSE /\ reportRows' = UpsertPending(reportRows, posts[p].start,
                                              posts[p].start + 6)
               /\ posts' = [posts EXCEPT ![p].pc = "awaitAgent",
                                         ![p].writes = @ + 1,
                                         ![p].calls = @ + 1]
    /\ UNCHANGED activityDays

\* reportAgent.ts:98-118: the race of request p settles and
\* generateWeeklyReport returns to the route
PostAgentSettle(p) ==
    /\ posts[p].pc = "awaitAgent"
    /\ \E completion \in ReportCompletions :
          posts' = [posts EXCEPT ![p].content = GenerateWeeklyReport(completion),
                                 ![p].pc = "update"]
    /\ UNCHANGED <<reportRows, activityDays>>

\* reports/route.ts:101-123: the data of the update
UpdatedRow(row, content) ==
    IF content.isNull
    THEN [row EXCEPT !.status = "FAILED"]
    ELSE [row EXCEPT !.status = "COMPLETED",
                     !.content = FixCategories(content.content)]

\* reports/route.ts:101-128: the record is updated with the agent's result
\* and the route answers
PostUpdate(p) ==
    /\ posts[p].pc = "update"
    /\ \E rejected \in BOOLEAN :
          IF rejected THEN PostCatch(p)
          ELSE LET w   == posts[p].start
                   row == UpdatedRow(reportRows[w], posts[p].content)
               IN  /\ reportRows' = [reportRows EXCEPT ![w] = row]
                   /\ posts' = [posts EXCEPT
                                  ![p].pc = "responded",
                                  ![p].writes = @ + 1,
                                  ![p].answer = IF posts[p].content.isNull
                                                THEN Answer500
                                                ELSE AnswerReport(201, row)]
    /\ UNCHANGED activityDays


(***************************************************************************)
(* The import page reading the progress stream.  The route writes every    *)
(* message followed by a newline; the transport hands the bytes to the     *)
(* reader in chunks whose boundaries the page does not control.            *)
(***************************************************************************)
MaxMessages == 2

\* progress messages as the agent enqueues them; one of them holds a newline
\* of its own, the way the summary header does (importAgent.ts:316)
LogMessages == { <<"a", "b">>, <<"\n", "c">>, <<"d">> }

MessageLists == UNION { [1..n -> LogMessages] : n \in 0..MaxMessages }

\* route.ts:20-22: the bytes of encoder.encode(message + '\n')
Encode(message) == message \o <<"\n">>

\* page.tsx handleImport: chunk.split('\n').filter(Boolean)
ChunkMessages(chunk) == SelectSeq(SplitOn(chunk, "\n"), NonEmpty)

VARIABLES
    pagePc,          \* "idle", "fetching", "reading", "done"
    routePc,         \* the route of the request: "idle", "writing", "closed"
    pending,         \* the messages the import has still to enqueue
    sent,            \* every byte the route wrote to the stream
    wire,            \* the bytes the reader has not been handed yet
    progressLog      \* React state progressLog

pageVars == <<pagePc, routePc, pending, sent, wire, progressLog>>

PageIdle ==
    /\ pagePc = "idle"
    /\ routePc = "idle"
    /\ pending = <<>>
    /\ sent = <<>>
    /\ wire = <<>>
    /\ progressLog = <<>>

\* handleImport up to await fetch: the log is reset and the request is sent
HandleImport ==
    /\ pagePc = "idle"
    /\ progressLog' = <<>>
    /\ pagePc' = "fetching"
    /\ UNCHANGED <<routePc, pending, sent, wire>>

\* route.ts:7-40: the request reaches the route, which builds the stream
\* whose start() runs the import; the import writes to it message by message,
\* before and after the page has the response
RouteStart ==
    /\ pagePc = "fetching"
    /\ routePc = "idle"
    /\ pending' \in MessageLists
    /\ routePc' = "writing"
    /\ UNCHANGED <<pagePc, sent, wire, progressLog>>

\* handleImport from await fetch to getReader(): the response has reached the
\* page
GetReader ==
    /\ pagePc = "fetching"
    /\ routePc # "idle"
    /\ pagePc' = "reading"
    /\ UNCHANGED <<routePc, pending, sent, wire, progressLog>>

\* route.ts:20-22: the import enqueues its next message
RouteEnqueue ==
    /\ routePc = "writing"
    /\ pending # <<>>
    /\ sent' = sent \o Encode(Head(pending))
    /\ wire' = wire \o Encode(Head(pending))
    /\ pending' = Tail(pending)
    /\ UNCHANGED <<pagePc, routePc, progressLog>>

\* route.ts:29-31: the import is over and the route closes the stream
RouteClose ==
    /\ routePc = "writing"
    /\ pending = <<>>
    /\ routePc' = "closed"
    /\ UNCHANGED <<pagePc, pending, sent, wire, progressLog>>

\* one turn of the read loop with done = false: the chunk is whatever prefix
\* of the outstanding bytes the transport delivers
ReadChunk ==
    /\ pagePc = "reading"
    /\ wire # <<>>
    /\ \E n \in 1..Len(wire) :
          LET chunk == SubSeq(wire, 1, n)
          IN  /\ progressLog' = progressLog \o ChunkMessages(chunk)
              /\ wire' = SubSeq(wire, n + 1, Len(wire))
    /\ UNCHANGED <<pagePc, routePc, pending, sent>>

\* the turn of the read loop with done = true: the stream is closed and every
\* byte has been read
ReadDone ==
    /\ pagePc = "reading"
    /\ routePc = "closed"
    /\ wire = <<>>
    /\ pagePc' = "done"
    /\ UNCHANGED <<routePc, pending, sent, wire, progressLog>>

(***************************************************************************)
(* The race between the model call and the timer, event by event.  Each of *)
(* generateSearchTerms, generateSummary and generateWeeklyReport awaits    *)
(* Promise.race([create(...), timeoutPromise]); the timer is never         *)
(* cleared, and the model call is never aborted, so either event may still *)
(* happen after the function has returned.                                 *)
(***************************************************************************)
Agents == {"generateSearchTerms", "generateSummary", "generateWeeklyReport"}

\* the rejection of timeoutPromise: ReportViewer.tsx:460-462, 662-664 and
\* reportAgent.ts:79-81
TimerRejection(agent) ==
    CASE agent = "generateSearchTerms" ->
            PlannerRejected("LLM request timed out after 30 seconds")
      [] agent = "generateSummary" ->
            SummaryRejected("LLM summary request timed out after 180 seconds")
      [] agent = "generateWeeklyReport" ->
            ReportRejected("LLM report generation timed out after 180 seconds")

\* what openai.chat.completions.create itself may settle with
ModelCompletions(agent) ==
    CASE agent = "generateSearchTerms" -> PlannerCompletions \ {TimerRejection(agent)}
      [] agent = "generateSummary" -> SummaryCompletions \ {TimerRejection(agent)}
      [] agent = "generateWeeklyReport" -> ReportCompletions \ {TimerRejection(agent)}

\* the value the agent returns when the race settles with the completion
AgentValue(agent, q, completion) ==
    [keywords |-> IF agent = "generateSearchTerms"
                  THEN GenerateSearchTerms(q, completion) ELSE <<>>,
     summary  |-> IF agent = "generateSummary"
                  THEN GenerateSummary(completion) ELSE NotFoundSummary,
     report   |-> IF agent = "generateWeeklyReport"
                  THEN GenerateWeeklyReport(completion) ELSE Null]

NoValue == [keywords |-> <<>>, summary |-> NotFoundSummary, report |-> Null]

\* a race that every settlement decides anew
LastWins(settledAlready, current, incoming) == incoming

\* Promise.race settles once, with the first of its promises to settle; the
\* function has returned by the time the other one settles
FirstWins(settledAlready, current, incoming) ==
    IF settledAlready THEN current ELSE incoming

VARIABLES
    racePc,          \* "idle", "awaiting", "returned"
    raceAgent,       \* the agent that was called
    raceQuery,       \* the query of generateSearchTerms
    modelCall,       \* "none", "pending", "settled"
    timer,           \* "none", "armed", "fired"
    raceFirst,       \* history: the event that settled the race
    raceCompletion,  \* history: what the model call settled with
    raceValue        \* the value the agent returned

raceVars == <<racePc, raceAgent, raceQuery, modelCall, timer, raceFirst,
              raceCompletion, raceValue>>

RaceIdle ==
    /\ racePc = "idle"
    /\ raceAgent = "generateSearchTerms"
    /\ raceQuery = <<>>
    /\ modelCall = "none"
    /\ timer = "none"
    /\ raceFirst = "none"
    /\ raceCompletion = PlannerRejected("")
    /\ raceValue = NoValue

\* ReportViewer.tsx:454-470, 649-679 and reportAgent.ts:69-96: the agent is
\* called with an input that needs the model, issues the call, arms the timer
\* and awaits the race
RaceStart ==
    /\ racePc = "idle"
    /\ \E agent \in Agents :
          /\ raceAgent' = agent
          /\ \E q \in (IF agent = "generateSearchTerms" THEN Queries ELSE {<<>>}) :
                raceQuery' = q
          /\ raceCompletion' = TimerRejection(agent)
    /\ modelCall' = "pending"
    /\ timer' = "armed"
    /\ racePc' = "awaiting"
    /\ UNCHANGED <<raceFirst, raceValue>>

\* the model call settles, before or after the timer
ModelSettles ==
    /\ modelCall = "pending"
    /\ \E completion \in ModelCompletions(raceAgent) :
          /\ raceCompletion' = completion
          /\ raceValue' = FirstWins(racePc = "returned", raceValue,
                                    AgentValue(raceAgent, raceQuery, completion))
    /\ modelCall' = "settled"
    /\ raceFirst' = IF racePc = "returned" THEN raceFirst ELSE "model"
    /\ racePc' = "returned"
    /\ UNCHANGED <<raceAgent, raceQuery, timer>>

\* the setTimeout callback runs and rejects timeoutPromise, before or after
\* the model call has settled
TimerFires ==
    /\ timer = "armed"
    /\ raceValue' = FirstWins(racePc = "returned", raceValue,
                              AgentValue(raceAgent, raceQuery, TimerRejection(raceAgent)))
    /\ timer' = "fired"
    /\ raceFirst' = IF racePc = "returned" THEN raceFirst ELSE "timer"
    /\ racePc' = "returned"
    /\ UNCHANGED <<raceAgent, raceQuery, modelCall, raceCompletion>>

(***************************************************************************)
(* Writers that share the store.  The handlers that write day-entries,     *)
(* activities and tags: the persistence of one import entry                *)
(* (importAgent.ts:259-308), POST of app/api/reports/[id]/route.ts (the    *)
(* journal entry route with the tag upsert), POST of                       *)
(* app/api/journal/route.ts and DELETE of app/api/journal/[id]/route.ts.   *)
(* Every awaited prisma call is one step, and a call that looks a record   *)
(* up before it creates it (connectOrCreate, upsert) is two: the lookup    *)
(* and the write.  The steps of the handlers interleave.  A store call     *)
(* fails here for one reason only, a constraint of the schema              *)
(* (unnamed/part_000:225-268): the unique Tag.name and JournalEntry.date,  *)
(* the relation of an activity to its day-entry, a record that is gone.    *)
(***************************************************************************)
MaxInFlight == 3

RunIds == {1, 2}

Handlers == {"run1", "run2", "journal", "v1", "delete"}

RunName(r) == IF r = 1 THEN "run1" ELSE "run2"

ActWalk == Act(JStr("Walk"), JNullN, JNullS, JStr(TagsDup), JStr("c2"))
ActPair == Act(JStr("Pair"), JNum(60), JNullS, JStr(TagsDup), JStr("WORK"))

\* processedData.activities of the two runs for the entry of D1
RunData(r) == IF r = 1 THEN <<ActRun>> ELSE <<ActRead, ActWalk>>

Run(pcOfRun, data, index, id, absentTags, conflictTags) ==
    [pc |-> pcOfRun, data |-> data, j |-> index, entryId |-> id,
     absent |-> absentTags, conflict |-> conflictTags]

\* the dates of the bodies of the two POST handlers; each body holds the one
\* activity Pair, tagged "go"
JournalDates == {D2, DJul1}
V1Dates == {D1}

\* a POST in flight: its body (date, force), the day-entry it works on, the
\* tag names its lookups found, the names it inserted, tagMap, its answer
JournalPost(pcOfPost, date, force, id, seenTags, createdTags, connected, status) ==
    [pc |-> pcOfPost, date |-> date, force |-> force, entryId |-> id,
     seen |-> seenTags, created |-> createdTags, tagMap |-> connected,
     status |-> status]

\* a DELETE in flight: params.id and its answer
Delete(pcOfDelete, id, status) == [pc |-> pcOfDelete, id |-> id, status |-> status]

\* whether table JournalEntry holds the id
HasEntry(rows, id) == \E k \in 1..Len(rows) : rows[k].id = id

\* journalEntry.delete({where: {id}})
RemoveEntry(rows, id) ==
    LET Other(row) == row.id # id
    IN  SelectSeq(rows, Other)

\* whether table Activity holds a row of the day-entry
HasActivities(rows, id) == \E k \in 1..Len(rows) : rows[k].journalEntryId = id

\* journal/route.ts:27-39: the row of the body's one work activity; its
\* description "Pair" is its own trim, notes || '' stores the empty string
\* for the absent notes
V1Row(id) == [Row(id, ActPair) EXCEPT !.notes = JStr("")]

\* connectOrCreate looks the name up and creates it when the lookup found
\* nothing; the names found absent that exist by the time of the insert
\* violate the unique constraint on Tag.name (P2002)
ConnectOrCreateConflicts(absentTags, table) == absentTags \cap table

VARIABLES
    runs,            \* the two import runs, each persisting one entry
    journalPost,     \* POST of app/api/reports/[id]/route.ts
    v1Post,          \* POST of app/api/journal/route.ts
    delete,          \* DELETE of app/api/journal/[id]/route.ts
    lastEntryId      \* the number of day-entry ids handed out so far

writerVars == <<runs, journalPost, v1Post, delete, lastEntryId>>

WritersIdle ==
    /\ runs = [r \in RunIds |-> Run("idle", <<>>, 0, 0, {}, {})]
    /\ journalPost = JournalPost("idle", D2, FALSE, 0, {}, {}, {}, 0)
    /\ v1Post = JournalPost("idle", D1, FALSE, 0, {}, {}, {}, 0)
    /\ delete = Delete("idle", 0, 0)
    /\ lastEntryId = 0

\* the day-entry of the date after an upsert or a create that found none:
\* a row with a fresh id
WithEntry(rows, date) ==
    IF FindEntry(rows, date) # 0 THEN rows
    ELSE Append(rows, EntryRow(lastEntryId + 1, date))

FreshIds(rows, date) ==
    IF FindEntry(rows, date) # 0 THEN lastEntryId ELSE lastEntryId + 1

\* importAgent.ts:259-264: journalEntry.upsert keyed by date, the lookup.
\* The store looks the date up and then updates or inserts; a store that
\* does both at once is the case of the two steps following each other
RunUpsertLookup(r) ==
    /\ runs[r].pc = "awaitUpsert"
    /\ runs' = [runs EXCEPT ![r].entryId = FindEntry(journalEntries, NewDate(zone, D1)),
                            ![r].pc = "upsertWrite"]
    /\ UNCHANGED <<journalEntries, activities, tagTable, journalPost, v1Post, delete,
                   lastEntryId>>

\* importAgent.ts:259-264 and :304-308: journalEntry.upsert keyed by date, the
\* write.  A date inserted since the lookup (unique date), or an entry
\* deleted since, rejects the call and the catch counts the entry as failed
RunUpsert(r) ==
    /\ runs[r].pc = "upsertWrite"
    /\ LET date == NewDate(zone, D1)
       IN  IF \/ runs[r].entryId = 0 /\ FindEntry(journalEntries, date) # 0
              \/ runs[r].entryId # 0 /\ ~HasEntry(journalEntries, runs[r].entryId)
           THEN /\ runs' = [runs EXCEPT ![r].pc = "failed"]
                /\ UNCHANGED <<journalEntries, lastEntryId>>
           ELSE /\ journalEntries' = WithEntry(journalEntries, date)
                /\ lastEntryId' = FreshIds(journalEntries, date)
                /\ runs' = [runs EXCEPT ![r].entryId = FindEntry(journalEntries', date),
                                        ![r].pc = "awaitDelete"]
    /\ UNCHANGED <<activities, tagTable, journalPost, v1Post, delete>>

\* importAgent.ts:267-276: activity.deleteMany of the day-entry, then the
\* head of the create loop
RunDeleteMany(r) ==
    /\ runs[r].pc = "awaitDelete"
    /\ activities' = DeleteWhere(activities, runs[r].entryId)
    /\ runs' = [runs EXCEPT ![r].j = 1,
                            ![r].pc = IF runs[r].data = <<>> THEN "saved"
                                      ELSE "connect"]
    /\ UNCHANGED <<journalEntries, tagTable, journalPost, v1Post, delete, lastEntryId>>

\* importAgent.ts:279-293: activity.create, the lookups of connectOrCreate
RunConnect(r) ==
    /\ runs[r].pc = "connect"
    /\ runs' = [runs EXCEPT
                  ![r].absent = Row(runs[r].entryId, runs[r].data[runs[r].j]).tags
                                \ tagTable,
                  ![r].pc = "awaitCreate"]
    /\ UNCHANGED <<journalEntries, activities, tagTable, journalPost, v1Post,
                   delete, lastEntryId>>

\* importAgent.ts:279-308: activity.create, the inserts.  A tag name that
\* exists by now, or a day-entry that is gone, rejects the create; the catch
\* at :295-298 rethrows and the catch at :304-308 counts the entry as failed
RunCreate(r) ==
    /\ runs[r].pc = "awaitCreate"
    /\ LET row       == Row(runs[r].entryId, runs[r].data[runs[r].j])
           conflicts == ConnectOrCreateConflicts(runs[r].absent, tagTable)
       IN  IF conflicts # {} \/ ~HasEntry(journalEntries, runs[r].entryId)
           THEN /\ runs' = [runs EXCEPT ![r].conflict = conflicts,
                                        ![r].pc = "failed"]
                /\ UNCHANGED <<activities, tagTable>>
           ELSE /\ activities' = Append(activities, row)
                /\ tagTable' = tagTable \cup row.tags
                /\ runs' = [runs EXCEPT
                              ![r].j = runs[r].j + 1,
                              ![r].pc = IF runs[r].j = Len(runs[r].data)
                                        THEN "saved" ELSE "connect"]
    /\ UNCHANGED <<journalEntries, journalPost, v1Post, delete, lastEntryId>>

\* reports/[id]/route.ts:57-86: the body is valid, the entry of the date is
\* looked up; an existing entry is overwritten with force and answered with
\* 409 without
JournalFindEntry ==
    /\ journalPost.pc = "findEntry"
    /\ LET id == FindEntry(journalEntries, NewDate(zone, journalPost.date))
       IN  journalPost' =
              IF id = 0 THEN [journalPost EXCEPT !.pc = "createEntry"]
              ELSE IF journalPost.force
              THEN [journalPost EXCEPT !.pc = "deleteMany", !.entryId = id]
              ELSE [journalPost EXCEPT !.pc = "responded", !.status = 409]
    /\ UNCHANGED <<journalEntries, activities, tagTable, runs, v1Post, delete,
                   lastEntryId>>

\* reports/[id]/route.ts:75-77: activity.deleteMany of the existing entry
JournalDeleteMany ==
    /\ journalPost.pc = "deleteMany"
    /\ activities' = DeleteWhere(activities, journalPost.entryId)
    /\ journalPost' = [journalPost EXCEPT !.pc = "updateEntry"]
    /\ UNCHANGED <<journalEntries, tagTable, runs, v1Post, delete, lastEntryId>>

\* reports/[id]/route.ts:79-83: journalEntry.update of updatedAt; an entry
\* that is gone rejects it and the catch at :159-163 answers 500
JournalUpdateEntry ==
    /\ journalPost.pc = "updateEntry"
    /\ journalPost' =
          IF HasEntry(journalEntries, journalPost.entryId)
          THEN [journalPost EXCEPT !.pc = "tagLookup"]
          ELSE [journalPost EXCEPT !.pc = "responded", !.status = 500]
    /\ UNCHANGED <<journalEntries, activities, tagTable, runs, v1Post, delete,
                   lastEntryId>>

\* reports/[id]/route.ts:87-101: journalEntry.create; a date created meanwhile
\* violates the unique constraint and the catch answers 500
JournalCreateEntry ==
    /\ journalPost.pc = "createEntry"
    /\ IF FindEntry(journalEntries, NewDate(zone, journalPost.date)) # 0
       THEN /\ journalPost' = [journalPost EXCEPT !.pc = "responded", !.status = 500]
            /\ UNCHANGED <<journalEntries, lastEntryId>>
       ELSE /\ journalEntries' = WithEntry(journalEntries, NewDate(zone, journalPost.date))
            /\ lastEntryId' = lastEntryId + 1
            /\ journalPost' = [journalPost EXCEPT !.entryId = lastEntryId + 1,
                                                  !.pc = "tagLookup"]
    /\ UNCHANGED <<activities, tagTable, runs, v1Post, delete>>

\* reports/[id]/route.ts:103-112: tag.upsert of every name, the lookups
JournalTagLookup ==
    /\ journalPost.pc = "tagLookup"
    /\ journalPost' =
          [journalPost EXCEPT
             !.seen = Row(journalPost.entryId, ActPair).tags \cap tagTable,
             !.pc = "tagWrite"]
    /\ UNCHANGED <<journalEntries, activities, tagTable, runs, v1Post, delete,
                   lastEntryId>>

\* reports/[id]/route.ts:108-113: tag.upsert of every name, the writes.  A
\* name that was seen is kept and a name that is still absent is inserted;
\* both go to tagMap.  A name that appeared since the lookup rejects its
\* upsert, and the catch at :114 goes on to findUnique
JournalTagWrite ==
    /\ journalPost.pc = "tagWrite"
    /\ LET names    == Row(journalPost.entryId, ActPair).tags
           rejected == (names \ journalPost.seen) \cap tagTable
       IN  /\ tagTable' = tagTable \cup names
           /\ journalPost' =
                 [journalPost EXCEPT
                    !.created = names \ tagTable,
                    !.tagMap = names \ rejected,
                    !.pc = IF rejected = {} THEN "createActivities" ELSE "tagFind"]
    /\ UNCHANGED <<journalEntries, activities, runs, v1Post, delete, lastEntryId>>

\* reports/[id]/route.ts:115-122: tag.findUnique of the names whose upsert
\* was rejected; a name it does not find stays out of tagMap
JournalTagFind ==
    /\ journalPost.pc = "tagFind"
    /\ journalPost' =
          [journalPost EXCEPT
             !.tagMap = @ \cup (Row(journalPost.entryId, ActPair).tags \cap tagTable),
             !.pc = "createActivities"]
    /\ UNCHANGED <<journalEntries, activities, tagTable, runs, v1Post, delete,
                   lastEntryId>>

\* reports/[id]/route.ts:126-163: activity.create connecting the tags of
\* tagMap, and the 201 answer; a day-entry that is gone rejects the create
\* and the catch answers 500
JournalCreateActivities ==
    /\ journalPost.pc = "createActivities"
    /\ IF HasEntry(journalEntries, journalPost.entryId)
       THEN /\ activities' =
                  Append(activities,
                         [Row(journalPost.entryId, ActPair) EXCEPT
                            !.tags = @ \cap journalPost.tagMap])
            /\ journalPost' = [journalPost EXCEPT !.pc = "responded", !.status = 201]
       ELSE /\ journalPost' = [journalPost EXCEPT !.pc = "responded", !.status = 500]
            /\ UNCHANGED activities
    /\ UNCHANGED <<journalEntries, tagTable, runs, v1Post, delete, lastEntryId>>

\* journal/route.ts:8-24: without force the entry of the date is looked up
\* and an existing one is answered with 409
V1FindEntry ==
    /\ v1Post.pc = "findEntry"
    /\ v1Post' =
          IF FindEntry(journalEntries, NewDate(zone, v1Post.date)) # 0
          THEN [v1Post EXCEPT !.pc = "responded", !.status = 409]
          ELSE [v1Post EXCEPT !.pc = "upsertLookup"]
    /\ UNCHANGED <<journalEntries, activities, tagTable, runs, journalPost,
                   delete, lastEntryId>>

\* journal/route.ts:26-71: journalEntry.upsert with its nested writes, the
\* lookups: the entry of the date and the names of connectOrCreate
V1UpsertLookup ==
    /\ v1Post.pc = "upsertLookup"
    /\ v1Post' =
          [v1Post EXCEPT
             !.entryId = FindEntry(journalEntries, NewDate(zone, v1Post.date)),
             !.seen = Row(0, ActPair).tags \cap tagTable,
             !.pc = "upsertWrite"]
    /\ UNCHANGED <<journalEntries, activities, tagTable, runs, journalPost,
                   delete, lastEntryId>>

\* journal/route.ts:57-76: journalEntry.upsert with its nested writes, the
\* writes, in one transaction: the entry is created with the activities, or
\* its activities are deleted and the new ones created.  A date or a tag name
\* created since the lookup, or an entry deleted since, rejects the call and
\* the catch answers 500
V1UpsertWrite ==
    /\ v1Post.pc = "upsertWrite"
    /\ LET names == Row(0, ActPair).tags
           date  == NewDate(zone, v1Post.date)
           id    == IF v1Post.entryId = 0 THEN lastEntryId + 1 ELSE v1Post.entryId
           kept  == DeleteWhere(activities, id)
       IN  IF \/ ConnectOrCreateConflicts(names \ v1Post.seen, tagTable) # {}
              \/ v1Post.entryId = 0 /\ FindEntry(journalEntries, date) # 0
              \/ v1Post.entryId # 0 /\ ~HasEntry(journalEntries, v1Post.entryId)
           THEN /\ v1Post' = [v1Post EXCEPT !.pc = "responded", !.status = 500]
                /\ UNCHANGED <<journalEntries, activities, tagTable, lastEntryId>>
           ELSE /\ journalEntries' = WithEntry(journalEntries, date)
                /\ lastEntryId' = FreshIds(journalEntries, date)
                /\ activities' = Append(kept, V1Row(id))
                /\ tagTable' = tagTable \cup names
                /\ v1Post' = [v1Post EXCEPT !.entryId = id,
                                            !.created = names \ tagTable,
                                            !.pc = "responded", !.status = 201]
    /\ UNCHANGED <<runs, journalPost, delete>>

\* journal/[id]/route.ts:12-26: the entry of the id is looked up; 404 for none
DeleteFindEntry ==
    /\ delete.pc = "findEntry"
    /\ delete' =
          IF HasEntry(journalEntries, delete.id)
          THEN [delete EXCEPT !.pc = "deleteMany"]
          ELSE [delete EXCEPT !.pc = "responded", !.status = 404]
    /\ UNCHANGED <<journalEntries, activities, tagTable, runs, journalPost,
                   v1Post, lastEntryId>>

\* journal/[id]/route.ts:29-31: activity.deleteMany of the entry
DeleteActivities ==
    /\ delete.pc = "deleteMany"
    /\ activities' = DeleteWhere(activities, delete.id)
    /\ delete' = [delete EXCEPT !.pc = "deleteEntry"]
    /\ UNCHANGED <<journalEntries, tagTable, runs, journalPost, v1Post, lastEntryId>>

\* journal/[id]/route.ts:34-51: journalEntry.delete and the answer; an entry
\* that holds activities again rejects the delete and the catch answers 500
DeleteEntry ==
    /\ delete.pc = "deleteEntry"
    /\ IF HasEntry(journalEntries, delete.id) /\ ~HasActivities(activities, delete.id)
       THEN /\ journalEntries' = RemoveEntry(journalEntries, delete.id)
            /\ delete' = [delete EXCEPT !.pc = "responded", !.status = 200]
       ELSE /\ delete' = [delete EXCEPT !.pc = "responded", !.status = 500]
            /\ UNCHANGED journalEntries
    /\ UNCHANGED <<activities, tagTable, runs, journalPost, v1Post, lastEntryId>>

\* the variables of the event-by-event models, and their state while none of
\* them runs
eventVars == <<pageVars, raceVars, writerVars>>

EventIdle == PageIdle /\ RaceIdle /\ WritersIdle

vars == <<importVars, searchVars, rankVars, reportVars, eventVars>>

Init ==
    /\ zone \in ImportZones
    /\ ImportInit /\ SearchIdle /\ RankIdle /\ ReportQuiet /\ EventIdle

\* an import whose consumer reads the stream to the end
ImportNext ==
    \/ POST
    \/ ImportStart
    \/ FetchCategories
    \/ Parse
    \/ EntryHead
    \/ ExtractAndClassify
    \/ Upsert
    \/ DeleteMany
    \/ CreateActivity
    \/ Summary
    \/ RouteFinally

Next == ImportNext /\ UNCHANGED <<searchVars, rankVars, reportVars, eventVars>>

Spec == Init /\ [][Next]_vars

\* an import whose consumer may cancel the stream
NextCancel ==
    \/ Next
    \/ ClientCancel /\ UNCHANGED <<searchVars, rankVars, reportVars, eventVars>>
    \/ RouteCatch /\ UNCHANGED <<searchVars, rankVars, reportVars, eventVars>>

SpecCancel == Init /\ [][NextCancel]_vars

\* one call of generateSearchTerms; the store is empty and no import runs
SearchInit ==
    /\ ImportInit
    /\ journalEntries = <<>>
    /\ SearchIdle
    /\ RankIdle
    /\ ReportIdle
    /\ EventIdle

SearchNext ==
    \/ SearchStart /\ UNCHANGED <<importVars, rankVars, reportVars, eventVars>>
    \/ SearchSettle /\ UNCHANGED <<importVars, rankVars, reportVars, eventVars>>

SpecSearch == SearchInit /\ [][SearchNext]_vars

\* the search pipeline from the fetched candidates to the answer; the store
\* is empty and no import runs
RerankInit ==
    /\ ImportInit
    /\ journalEntries = <<>>
    /\ SearchIdle
    /\ RankIdle
    /\ ReportIdle
    /\ EventIdle

RerankNext ==
    \/ RerankCall /\ UNCHANGED <<importVars, searchVars, reportVars, eventVars>>
    \/ RerankBatch /\ UNCHANGED <<importVars, searchVars, reportVars, eventVars>>
    \/ SummaryCall /\ UNCHANGED <<importVars, searchVars, reportVars, eventVars>>
    \/ SummarySettle /\ UNCHANGED <<importVars, searchVars, reportVars, eventVars>>

SpecRerank == RerankInit /\ [][RerankNext]_vars

\* requests for weekly reports, any number of them in flight at once, or one
\* call of generateWeeklyReport on its own.  One week starts with any row, the
\* others without a report; the store of the journal is empty and no import
\* runs
ReportInit ==
    /\ ImportInit
    /\ journalEntries = <<>>
    /\ SearchIdle
    /\ RankIdle
    /\ EventIdle
    /\ zone \in Zones
    /\ \E w \in Weeks : \E row \in InitialRows(w) :
          reportRows = [v \in Weeks |-> IF v = w THEN row ELSE NoReport]
    /\ activityDays \in InitialActivityDays
    /\ posts = [p \in PostIds |-> Post("idle", FALSE, 0, Null, NoAnswer, 0, 0)]
    /\ agentPc = "idle"
    /\ agentInput = {}
    /\ reportRequests = 0
    /\ reportCompletion = ReportRejected("")
    /\ reportContent = Null

ReportNext ==
    \/ (\E p \in PostIds : PostReceive(p)) /\ UNCHANGED <<importVars, searchVars, rankVars, eventVars, zone>> /\ UNCHANGED agentVars
    \/ (\E p \in PostIds : PostFindFirst(p)) /\ UNCHANGED <<importVars, searchVars, rankVars, eventVars, zone>> /\ UNCHANGED agentVars
    \/ (\E p \in PostIds : PostFindMany(p)) /\ UNCHANGED <<importVars, searchVars, rankVars, eventVars, zone>> /\ UNCHANGED agentVars
    \/ (\E p \in PostIds : PostUpsert(p)) /\ UNCHANGED <<importVars, searchVars, rankVars, eventVars, zone>> /\ UNCHANGED agentVars
    \/ (\E p \in PostIds : PostAgentSettle(p)) /\ UNCHANGED <<importVars, searchVars, rankVars, eventVars, zone>> /\ UNCHANGED agentVars
    \/ (\E p \in PostIds : PostUpdate(p)) /\ UNCHANGED <<importVars, searchVars, rankVars, eventVars, zone>> /\ UNCHANGED agentVars
    \/ GenerateWeeklyReportCall /\ UNCHANGED <<importVars, searchVars, rankVars, eventVars, zone>>
    \/ AgentSettle /\ UNCHANGED <<importVars, searchVars, rankVars, eventVars, zone>>

SpecReports == ReportInit /\ [][ReportNext]_vars

\* the import page reading one progress stream; the store is empty
PageInit ==
    /\ ImportInit
    /\ journalEntries = <<>>
    /\ SearchIdle
    /\ RankIdle
    /\ ReportIdle
    /\ EventIdle

PageNext ==
    \/ HandleImport /\ UNCHANGED <<importVars, searchVars, rankVars, reportVars, raceVars, writerVars>>
    \/ RouteStart /\ UNCHANGED <<importVars, searchVars, rankVars, reportVars, raceVars, writerVars>>
    \/ GetReader /\ UNCHANGED <<importVars, searchVars, rankVars, reportVars, raceVars, writerVars>>
    \/ RouteEnqueue /\ UNCHANGED <<importVars, searchVars, rankVars, reportVars, raceVars, writerVars>>
    \/ RouteClose /\ UNCHANGED <<importVars, searchVars, rankVars, reportVars, raceVars, writerVars>>
    \/ ReadChunk /\ UNCHANGED <<importVars, searchVars, rankVars, reportVars, raceVars, writerVars>>
    \/ ReadDone /\ UNCHANGED <<importVars, searchVars, rankVars, reportVars, raceVars, writerVars>>

SpecChunks == PageInit /\ [][PageNext]_vars

\* one agent call awaiting its race.  The setTimeout callback is run by the
\* event loop once its delay has passed, so the timer step is weakly fair;
\* nothing obliges the model call to settle
RaceInit ==
    /\ ImportInit
    /\ journalEntries = <<>>
    /\ SearchIdle
    /\ RankIdle
    /\ ReportIdle
    /\ EventIdle

RaceNext ==
    \/ RaceStart /\ UNCHANGED <<importVars, searchVars, rankVars, reportVars, pageVars, writerVars>>
    \/ ModelSettles /\ UNCHANGED <<importVars, searchVars, rankVars, reportVars, pageVars, writerVars>>
    \/ TimerFires /\ UNCHANGED <<importVars, searchVars, rankVars, reportVars, pageVars, writerVars>>

\* the timer step on its own, for the fairness condition
TimerStep ==
    TimerFires /\ UNCHANGED <<importVars, searchVars, rankVars, reportVars, pageVars, writerVars>>

SpecRace == RaceInit /\ [][RaceNext]_vars /\ WF_vars(TimerStep)

\* the import variables other than the three tables
importRest == <<pc, stream, request, i, j, responses, processedData, entryId,
                counters, trace, closeCalls>>

\* the ids a DELETE may name
DeleteIds == {1, 2}

\* up to MaxInFlight of the handlers are in flight: import runs that have each
\* extracted the activities of an entry for D1 and are about to persist them,
\* and requests whose body has been read
WritersInit ==
    /\ ImportInit
    /\ SearchIdle
    /\ RankIdle
    /\ ReportIdle
    /\ PageIdle
    /\ RaceIdle
    /\ lastEntryId = Len(journalEntries)
    /\ \E inFlight \in SUBSET Handlers :
          /\ Cardinality(inFlight) \in 1..MaxInFlight
          /\ runs = [r \in RunIds |->
                       IF RunName(r) \in inFlight
                       THEN Run("awaitUpsert", RunData(r), 0, 0, {}, {})
                       ELSE Run("idle", <<>>, 0, 0, {}, {})]
          /\ IF "journal" \in inFlight
             THEN \E date \in JournalDates, force \in BOOLEAN :
                     journalPost = JournalPost("findEntry", date, force, 0, {}, {}, {}, 0)
             ELSE journalPost = JournalPost("idle", D2, FALSE, 0, {}, {}, {}, 0)
          /\ IF "v1" \in inFlight
             THEN \E date \in V1Dates, force \in BOOLEAN :
                     v1Post = JournalPost(IF force THEN "upsertLookup" ELSE "findEntry",
                                          date, force, 0, {}, {}, {}, 0)
             ELSE v1Post = JournalPost("idle", D1, FALSE, 0, {}, {}, {}, 0)
          /\ IF "delete" \in inFlight
             THEN \E id \in DeleteIds : delete = Delete("findEntry", id, 0)
             ELSE delete = Delete("idle", 0, 0)

WritersNext ==
    \/ (\E r \in RunIds : RunUpsertLookup(r)) /\ UNCHANGED <<importRest, searchVars, rankVars, reportVars, pageVars, raceVars>>
    \/ (\E r \in RunIds : RunUpsert(r)) /\ UNCHANGED <<importRest, searchVars, rankVars, reportVars, pageVars, raceVars>>
    \/ (\E r \in RunIds : RunDeleteMany(r)) /\ UNCHANGED <<importRest, searchVars, rankVars, reportVars, pageVars, raceVars>>
    \/ (\E r \in RunIds : RunConnect(r)) /\ UNCHANGED <<importRest, searchVars, rankVars, reportVars, pageVars, raceVars>>
    \/ (\E r \in RunIds : RunCreate(r)) /\ UNCHANGED <<importRest, searchVars, rankVars, reportVars, pageVars, raceVars>>
    \/ JournalFindEntry /\ UNCHANGED <<importRest, searchVars, rankVars, reportVars, pageVars, raceVars>>
    \/ JournalDeleteMany /\ UNCHANGED <<importRest, searchVars, rankVars, reportVars, pageVars, raceVars>>
    \/ JournalUpdateEntry /\ UNCHANGED <<importRest, searchVars, rankVars, reportVars, pageVars, raceVars>>
    \/ JournalCreateEntry /\ UNCHANGED <<importRest, searchVars, rankVars, reportVars, pageVars, raceVars>>
    \/ JournalTagLookup /\ UNCHANGED <<importRest, searchVars, rankVars, reportVars, pageVars, raceVars>>
    \/ JournalTagWrite /\ UNCHANGED <<importRest, searchVars, rankVars, reportVars, pageVars, raceVars>>
    \/ JournalTagFind /\ UNCHANGED <<importRest, searchVars, rankVars, reportVars, pageVars, raceVars>>
    \/ JournalCreateActivities /\ UNCHANGED <<importRest, searchVars, rankVars, reportVars, pageVars, raceVars>>
    \/ V1FindEntry /\ UNCHANGED <<importRest, searchVars, rankVars, reportVars, pageVars, raceVars>>
    \/ V1UpsertLookup /\ UNCHANGED <<importRest, searchVars, rankVars, reportVars, pageVars, raceVars>>
    \/ V1UpsertWrite /\ UNCHANGED <<importRest, searchVars, rankVars, reportVars, pageVars, raceVars>>
    \/ DeleteFindEntry /\ UNCHANGED <<importRest, searchVars, rankVars, reportVars, pageVars, raceVars>>
    \/ DeleteActivities /\ UNCHANGED <<importRest, searchVars, rankVars, reportVars, pageVars, raceVars>>
    \/ DeleteEntry /\ UNCHANGED <<importRest, searchVars, rankVars, reportVars, pageVars, raceVars>>

SpecWriters == WritersInit /\ [][WritersNext]_vars


(***************************************************************************)
(* Properties of the import.                                               *)
(***************************************************************************)
CountLines(t) == Cardinality({k \in 1..Len(log) : log[k].t = t})

NoModelCall == \A k \in 1..Len(trace) : trace[k].ev # "llm"
NoWrite == \A k \in 1..Len(trace) : trace[k].ev \notin {"upsert", "deleteMany", "create"}
StoreUntouched ==
    /\ [journalEntries |-> journalEntries, activities |-> activities] \in InitialStores
    /\ NoWrite
ImportEnded == pc \in {"returned", "closed"}

IsBlank(text) == \A p \in 1..Len(text) : text[p] \in WhiteSpace

CustomCategoryWithoutDescription ==
    \E k \in 1..Len(categories) :
        /\ ~categories[k].isDefault
        /\ ~categories[k].hasDescription \/ IsBlank(categories[k].description)

\* C1: when a non-default category has a missing, empty or whitespace-only
\* description the run stops at category validation: one validation-failure
\* line ends the log, and there is no model call, no store write, no parsed
\* entry and no summary block, whatever the journal text is.
C1_AbortsOnUndescribedCategory ==
    CustomCategoryWithoutDescription =>
        /\ ImportEnded
        /\ CountLines("ValidationFailed") = 1
        /\ log[Len(log)].t = "ValidationFailed"
        /\ NoModelCall
        /\ StoreUntouched
        /\ entries = <<>> /\ i = 0
        /\ CountLines("SummaryHeader") = 0

C1_Witness ==
    /\ pc = "closed"
    /\ \E k \in 1..Len(categories) :
          ~categories[k].isDefault /\ categories[k].description = <<" ", "\t">>
    /\ Len(ParseEntries(journalText)) = 2

NoCustomCategory ==
    fetched = "resolved" /\ \A k \in 1..Len(categories) : categories[k].isDefault

\* C2: when the category fetch fails, or no non-default category exists, the
\* run ends before the entries are parsed: no model call, no store write,
\* and the per-entry loop is never entered.
C2_AbortsBeforeParsing ==
    (fetched = "rejected" \/ NoCustomCategory) =>
        /\ ImportEnded
        /\ entries = <<>> /\ i = 0
        /\ NoModelCall
        /\ StoreUntouched
        /\ CountLines("ParsingEntries") = 0
        /\ CountLines("ProcessingEntry") = 0

C2_Witness ==
    /\ pc = "closed"
    /\ NoCustomCategory
    /\ categories # <<>>
    /\ Len(ParseEntries(journalText)) = 2

IsProcessingEntry(e) == e.t = "ProcessingEntry"
\* the entries visited so far, in the order of their visits
Visited == SelectSeq(log, IsProcessingEntry)

C3_VisitedInOrder ==
    Len(entries) >= 1 =>
        /\ \A k \in 1..Len(Visited) : Visited[k].n = k
        /\ Len(Visited) <= Len(entries)
        /\ pc \in {"summary", "returned", "closed"} => Len(Visited) = Len(entries)
        /\ ImportEnded => CountLines("SummaryHeader") = 1

\* position inside one iteration of the loop
PhaseRank(p) ==
    CASE p = "loop" -> 1 [] p = "awaitLLM" -> 2 [] p = "awaitUpsert" -> 3
      [] p = "awaitDelete" -> 4 [] p = "awaitCreate" -> 5 [] OTHER -> 6

\* a step taken inside the loop moves forward: to a later entry (or past the
\* last one, to the summary), to a later phase of the same entry, or to the
\* next activity of the same entry
C3_StepAdvances ==
    PhaseRank(pc) <= 5 =>
        \/ i' = i + 1 /\ pc' = (IF i' > Len(entries) THEN "summary" ELSE "loop")
        \/ i' = i /\ PhaseRank(pc') <= 5 /\ PhaseRank(pc') > PhaseRank(pc)
        \/ i' = i /\ pc' = pc /\ pc = "awaitCreate" /\ j' = j + 1 /\ j' <= Len(processedData)

\* C3: once category validation passed and n >= 1 entries were parsed, the
\* entries are visited exactly once each, in input order; no failure of an
\* entry (date format, extraction, persistence) keeps the later entries from
\* being visited: every step of the loop advances towards the summary, and
\* the run never ends without it.
C3_EveryEntryVisited ==
    /\ [] C3_VisitedInOrder
    /\ [][C3_StepAdvances]_vars

C3_Witness ==
    /\ pc = "closed"
    /\ Len(entries) = 2
    /\ \E k \in 1..Len(log) : log[k].t = "EntryDatabaseError" /\ log[k].i = 1
    /\ \E k \in 1..Len(log) : log[k].t = "SavedEntry" /\ log[k].i = 2

\* the categoryIds of a response that were not among the ids in the prompt
OffendingIds(completion) ==
    IF completion.settled = "resolved" /\ completion.hasContent /\ completion.isJson
       /\ completion.doc.hasActivities
    THEN {completion.doc.activities[k].categoryId.v :
             k \in 1..Len(completion.doc.activities)}
         \ {classifiable[k].id : k \in 1..Len(classifiable)}
    ELSE {}

\* entry e was rejected for the ids in bad: it is counted as failed, the log
\* names every offending id, and nothing was written for it
RejectedForIds(e, bad) ==
    /\ e < i
    /\ \E k \in 1..Len(log) : log[k].i = e /\ log[k].t = "FailedToProcess"
    /\ \E k \in 1..Len(log) :
          /\ log[k].i = e /\ log[k].t = "InvalidCategoryIds"
          /\ bad \subseteq SeqToSet(log[k].ids)
    /\ \A k \in 1..Len(trace) :
          trace[k].i = e => trace[k].ev \notin {"upsert", "deleteMany", "create"}
    /\ \A k \in 1..Len(log) : log[k].i = e => log[k].t # "SavedEntry"

\* the step that receives such a response counts one failure and leaves the
\* activity table alone
C4_StepCountsFailure ==
    (Len(responses') = Len(responses) + 1
     /\ OffendingIds(responses'[Len(responses')][2]) # {}) =>
        /\ failureCount' = failureCount + 1
        /\ successCount' = successCount
        /\ activities' = activities
        /\ journalEntries' = journalEntries

\* C4 as stated: any response with an activity whose categoryId was not
\* supplied in the prompt is rejected as a whole, the entry is counted as
\* failed, the log contains the offending id, and nothing is persisted.
C4_AnyResponseWithUnknownId ==
    \A r \in 1..Len(responses) :
        OffendingIds(responses[r][2]) # {} =>
            RejectedForIds(responses[r][1], OffendingIds(responses[r][2]))

\* C4 (amended): a response that satisfies the import schema and has an
\* activity whose categoryId was not supplied in the prompt is rejected as a
\* whole: the entry is counted as failed, the log names every offending id,
\* and no day-entry or activity is written for that entry; a response that
\* also violates the schema is rejected as well, but for the schema violation.
C4_SchemaValidResponseWithUnknownId ==
    /\ [] (\A r \in 1..Len(responses) :
             LET bad == OffendingIds(responses[r][2])
             IN  bad # {} =>
                   IF JournalImportSchema(responses[r][2].doc)
                   THEN RejectedForIds(responses[r][1], bad)
                   ELSE /\ responses[r][1] < i
                        /\ \A k \in 1..Len(trace) :
                              trace[k].i = responses[r][1] =>
                                 trace[k].ev \notin {"upsert", "deleteMany", "create"})
    /\ [][C4_StepCountsFailure]_vars

C4_Witness ==
    /\ pc = "closed"
    /\ \E r \in 1..Len(responses) :
          /\ responses[r][2].doc.activities = <<ActBug, ActGhost>>
          /\ responses[r][1] = 1
    /\ \E k \in 1..Len(log) : log[k].i = 1 /\ log[k].ids = <<"cX">>
    /\ \E k \in 1..Len(log) : log[k].i = 2 /\ log[k].t = "SavedEntry"

\* the rows of the activity table that belong to day-entry id, in table order
RowsOf(rows, id) ==
    LET OfEntry(row) == row.journalEntryId = id
    IN  SelectSeq(rows, OfEntry)

\* the day-entries stored for a date
EntriesOf(rows, date) == {k \in 1..Len(rows) : rows[k].date = date}

\* a stored row carries the extracted activity: same description, duration
\* and notes, and the tags named in its comma-separated tag string
SameActivity(row, a) ==
    /\ row.description = a.description
    /\ row.duration = a.duration
    /\ row.notes = a.notes
    /\ row.categoryId = a.categoryId.v
    /\ row.tags = {Trim(part) : part \in SeqToSet(SplitOn(a.tags.v, ","))} \ {<<>>}

C5_StepReplaces ==
    successCount' = successCount + 1 =>
        LET date == NewDate(zone, EntryDate(entries[i]))
            rows == RowsOf(activities', entryId)
        IN  /\ Cardinality(EntriesOf(journalEntries', date)) = 1
            /\ \A k \in EntriesOf(journalEntries', date) : journalEntries'[k].id = entryId
            /\ Len(rows) = Len(processedData)
            /\ \A k \in 1..Len(rows) : SameActivity(rows[k], processedData[k])

\* C5: import overwrite is an idempotent replace: when an entry of date D with
\* N extracted activities has been persisted successfully, the store holds
\* exactly one day-entry for D and exactly those N activities for it, whatever
\* was stored for D before.
C5_ImportReplaces == [][C5_StepReplaces]_vars

C5_Witness ==
    /\ pc = "closed"
    /\ successCount = 2
    /\ \E k \in 1..Len(trace) : trace[k].ev = "deleteMany" /\ trace[k].n = 2 /\ trace[k].i = 1
    /\ \E k \in 1..Len(trace) : trace[k].ev = "deleteMany" /\ trace[k].n = 1 /\ trace[k].i = 2
    /\ Len(RowsOf(activities, 1)) = 1


SummaryTags ==
    <<{"SummaryHeader"}, {"SummarySucceeded"}, {"SummaryFailed"},
      {"SummaryTotalActivities"}, {"SummaryTime"}, {"ImportCompleted", "ImportFailed"}>>

\* the log ends with one complete summary block
EndsWithSummary ==
    /\ Len(log) >= 6
    /\ \A k \in 1..6 : log[Len(log) - 6 + k].t \in SummaryTags[k]
    /\ \A k \in 1..Len(log) : \A m \in 1..6 : log[k].t \in SummaryTags[m] => k = Len(log) - 6 + m

\* the calls of enqueue with the generic failure line (route.ts:28), whether
\* the stream took the line or refused it
FailureAttempts == {k \in 1..Len(trace) : trace[k].t = "UnexpectedError"}

\* the generic failure lines in the progress log
FailureLines == {k \in 1..Len(log) : log[k].t = "UnexpectedError"}

\* processJournalImport threw
Threw == pc \in {"thrown", "caught"} \/ FailureAttempts # {}

\* processJournalImport returned
Returned == pc = "returned" \/ (pc = "closed" /\ ~Threw)

\* the summary block is emitted exactly once, as the last lines of the log,
\* in every run that reaches the end of the per-entry loop, and not at all in
\* a run that aborts early (category fetch error, configuration error, no
\* parsed entry) or throws
SummaryOnce ==
    /\ CountLines("SummaryHeader") <= 1
    /\ Returned =>
          IF Len(entries) >= 1
          THEN EndsWithSummary
          ELSE /\ \A k \in 1..Len(log) : \A m \in 1..6 : log[k].t \notin SummaryTags[m]
               /\ log[Len(log)].t \in {"DatabaseError", "ValidationFailed", "NoValidEntries"}
    /\ Threw => CountLines("SummaryHeader") = 0

\* C6 as stated: the summary block is emitted exactly once at the end of a
\* run that reaches the end of the loop and never in a run that aborts early,
\* and when processJournalImport throws the progress log holds a single
\* generic failure line instead of a summary.
C6_SummaryOnceAtEnd ==
    /\ SummaryOnce
    /\ (Threw /\ pc \in {"caught", "closed"}) => Cardinality(FailureLines) = 1
    /\ ~Threw => FailureLines = {}

\* C6, amended: the summary block is emitted exactly once at the end of a run
\* that reaches the end of the loop and never in a run that aborts early or
\* throws; processJournalImport throws only on a stream the consumer has
\* cancelled, so the route's one call of enqueue with the generic failure
\* line is refused and the progress log of a thrown run holds neither a
\* summary nor a failure line.
C6_SummaryOnceNoFailureLine ==
    /\ SummaryOnce
    /\ FailureLines = {}
    /\ Threw => stream = "cancelled"
    /\ (Threw /\ pc \in {"caught", "closed"}) =>
          /\ Cardinality(FailureAttempts) = 1
          /\ \A k \in FailureAttempts : trace[k].ev = "refused"
    /\ pc \in {"returned", "thrown"} => FailureAttempts = {}

\* a run that threw while its second entry was in work, after the first had
\* been saved, and whose route has caught the error and closed
C6_Witness ==
    /\ pc = "closed"
    /\ Threw
    /\ Len(entries) = 2
    /\ successCount = 1
    /\ Cardinality(FailureAttempts) = 1
    /\ FailureLines = {}

ExtractionTags ==
    {"SendingToLLM", "EmptyResponse", "LLMCompleted", "ValidatingStructure",
     "ResponseValidationFailed", "FieldErrors", "FormErrors", "InvalidCategoryIds",
     "ValidCategories", "Extracted", "ActivityDetail", "LLMProcessingError", "JSONHint",
     "NetworkHint", "FailedToProcess"}
PersistenceTags ==
    {"Saving", "RemovedExisting", "SavedActivity", "FailedToSaveActivity", "SavedEntry",
     "EntryDatabaseError"}

InExtraction(e) == e.ev = "llm" \/ (e.ev = "log" /\ e.t \in ExtractionTags)
InPersistence(e) ==
    e.ev \in {"upsert", "deleteMany", "create"} \/ (e.ev = "log" /\ e.t \in PersistenceTags)

ModelCalls == Cardinality({k \in 1..Len(trace) : trace[k].ev = "llm"})

\* C7: the entries are processed strictly one after the other: every progress
\* line, model call and store write of entry a precedes those of entry b > a;
\* at most one model call is in flight; within one entry the extraction-phase
\* lines precede the persistence-phase lines.
C7_StrictlySequential ==
    /\ \A a, b \in 1..Len(trace) :
          (a < b /\ trace[a].i > 0 /\ trace[b].i > 0) =>
              /\ trace[a].i <= trace[b].i
              /\ trace[a].i = trace[b].i => ~(InPersistence(trace[a]) /\ InExtraction(trace[b]))
    /\ \A k \in 1..Len(trace) :
          trace[k].i > 0 => InExtraction(trace[k]) \/ InPersistence(trace[k])
                            \/ trace[k].t \in {"ProcessingEntry", "ContentPreview",
                                               "InvalidDateFormat"}
    /\ ModelCalls - Len(responses) = (IF pc = "awaitLLM" THEN 1 ELSE 0)

C7_Witness ==
    /\ pc = "closed"
    /\ ModelCalls = 2
    /\ \E a, b \in 1..Len(trace) :
          /\ trace[a].ev = "create" /\ trace[a].i = 1 /\ trace[a].n = 2
          /\ trace[b].ev = "create" /\ trace[b].i = 2

C8_ClosedAtEnd ==
    /\ closeCalls <= 1
    /\ closeCalls = 1 <=> pc = "closed"
    /\ stream = "closed" => pc = "closed"

C8_StepAfterClose ==
    /\ closeCalls' # closeCalls => pc \in {"returned", "caught"}
    /\ stream \in {"closed", "cancelled"} => log' = log

\* C8: the stream of POST /api/import is closed exactly once, after
\* processJournalImport has returned or thrown, and no progress line is
\* enqueued once the stream is closed.
C8_StreamClosedOnce ==
    /\ [] C8_ClosedAtEnd
    /\ [][C8_StepAfterClose]_vars

C8_Witness ==
    /\ pc = "closed"
    /\ closeCalls = 1
    /\ Threw
    /\ Len(responses) = 1


(***************************************************************************)
(* Properties of the query planner.                                        *)
(***************************************************************************)
\* the model path failed: the race rejected (timeout, transport), the content
\* was empty or not JSON, or the document is not 3 to 7 strings under "keywords"
PlannerFailed ==
    \/ plannerCompletion.settled = "rejected"
    \/ ~plannerCompletion.hasContent
    \/ ~plannerCompletion.isJson
    \/ ~plannerCompletion.doc.hasKeywords
    \/ \E k \in 1..Len(plannerCompletion.doc.keywords) :
          plannerCompletion.doc.keywords[k].t # "string"
    \/ Len(plannerCompletion.doc.keywords) \notin 3..7

\* the maximal pieces <<first, last>> of the query that hold no separator
Pieces(separators) ==
    {p \in (1..Len(query)) \X (1..Len(query)) :
        /\ p[1] <= p[2]
        /\ \A k \in p[1]..p[2] : query[k] \notin separators
        /\ p[1] = 1 \/ query[p[1] - 1] \in separators
        /\ p[2] = Len(query) \/ query[p[2] + 1] \in separators}

LongPieces(separators) == {p \in Pieces(separators) : p[2] - p[1] + 1 > 2}

\* the keywords are the pieces longer than 2 characters, in query order
KeywordsAreLongPieces(separators) ==
    LET long == LongPieces(separators)
        Rank(p) == Cardinality({r \in long : r[1] <= p[1]})
    IN  /\ Len(keywords) = Cardinality(long)
        /\ \A p \in long : keywords[Rank(p)] = SubSeq(query, p[1], p[2])

\* C9 as stated: when the model path fails, generateSearchTerms returns the
\* query split on whitespace, keeping exactly the tokens longer than 2
\* characters, in query order.
C9_FallbackSplitsOnWhitespace ==
    (searchPc = "returned" /\ PlannerFailed) => KeywordsAreLongPieces(WhiteSpace)

\* C9 (amended): generateSearchTerms never throws; when the model path fails
\* it returns the query split at every space character (U+0020, no other
\* whitespace), keeping exactly the pieces longer than 2 characters, in query
\* order.
C9_FallbackSplitsOnSpaces ==
    /\ searchPc = "awaitPlanner" => ENABLED SearchSettle
    /\ (searchPc = "returned" /\ PlannerFailed) => KeywordsAreLongPieces({" "})

C9_Witness ==
    /\ searchPc = "returned"
    /\ plannerCompletion.settled = "resolved"
    /\ Len(plannerCompletion.doc.keywords) = 8
    /\ query = <<"m", "y", " ", " ", "a", "p", "i", " ">>
    /\ keywords = <<<<"a", "p", "i">>>>

\* C10: generateSearchTerms returns at most 7 keywords, all of them non-empty,
\* and at least one whenever the query has a token longer than 2 characters.
C10_OneToSevenKeywords ==
    searchPc = "returned" =>
        /\ Len(keywords) <= 7
        /\ \A k \in 1..Len(keywords) : keywords[k] # <<>>
        /\ LongPieces({" "}) # {} => Len(keywords) >= 1

(***************************************************************************)
(* Properties of the reranker.                                             *)
(***************************************************************************)
\* rerankActivities has returned
RerankReturned == rankPc \in {"ranked", "awaitSummary", "responded"}

IsCandidateId(id) == \E c \in 1..Len(candidates) : candidates[c].id = id

\* a batch that failed: the call threw, or the content was empty, not JSON,
\* or not an object with an array of strings under ranked_ids
BatchFailed(completion) ==
    \/ completion.settled = "rejected"
    \/ ~completion.hasContent
    \/ ~completion.isJson
    \/ ~completion.doc.hasRankedIds
    \/ \E k \in 1..Len(completion.doc.ranked_ids) :
          completion.doc.ranked_ids[k].t # "string"

\* the ids a batch hands over, in the order the model gave them
Contribution(completion) ==
    IF BatchFailed(completion) THEN <<>>
    ELSE [k \in 1..Len(completion.doc.ranked_ids) |-> completion.doc.ranked_ids[k].v]

RECURSIVE Contributions(_)
Contributions(completions) ==
    IF completions = <<>> THEN <<>>
    ELSE Contribution(Head(completions)) \o Contributions(Tail(completions))

\* the contributions of all batches, in batch order, without the ids that
\* belong to no candidate, as activities
ExpectedRanking ==
    LET ids == SelectSeq(Contributions(rankCompletions), IsCandidateId)
    IN  [k \in 1..Len(ids) |->
            CHOOSE a \in SeqToSet(candidates) : a.id = ids[k]]

FirstCandidates(n) ==
    SubSeq(candidates, 1, IF Len(candidates) < n THEN Len(candidates) ELSE n)

\* C11: the list rerankActivities returns holds no activity id twice, and so
\* it is never longer than the candidate list.
C11_NoDuplicateIds ==
    RerankReturned =>
        /\ \A a, b \in 1..Len(rankedActivities) :
              a # b => rankedActivities[a].id # rankedActivities[b].id
        /\ Len(rankedActivities) <= Len(candidates)

\* C12: every activity rerankActivities returns is one of the candidates; an
\* id of the model that matches no candidate never shows in the result.
C12_OnlyCandidates ==
    RerankReturned =>
        \A k \in 1..Len(rankedActivities) :
            /\ rankedActivities[k] \in SeqToSet(candidates)
            /\ rankedActivities[k].id # GhostId

C12_Witness ==
    /\ RerankReturned
    /\ \E k \in 1..Len(allRankedIds) : allRankedIds[k] = GhostId
    /\ Len(rankedActivities) >= 1
    /\ Len(rankedActivities) < Len(allRankedIds)

\* C13: for a non-empty candidate list the result is never empty; whenever
\* no returned id belongs to a candidate (all batches failed, returned no
\* ids, or returned only unknown ids) the result is the first min(15, N)
\* candidates in their order.
C13_FallbackWhenNothingRanked ==
    (RerankReturned /\ Len(candidates) > 0) =>
        /\ rankedActivities # <<>>
        /\ ExpectedRanking = <<>> => rankedActivities = FirstCandidates(15)

\* C14: N candidates make exactly ceil(N/10) model calls, call k holding the
\* candidates 10(k-1)+1 .. min(10k, N), whatever the earlier batches did; the
\* accumulator holds the contributions of the batches that did not fail and
\* nothing of a failed one; every awaited call can settle in any way without
\* rerankActivities throwing.
C14_BatchIsolation ==
    /\ \A k \in 1..Len(rankRequests) :
          rankRequests[k] = [m \in 1..(IF 10 * k < Len(candidates)
                                       THEN 10
                                       ELSE Len(candidates) - 10 * (k - 1))
                               |-> candidates[10 * (k - 1) + m]]
    /\ allRankedIds = Contributions(rankCompletions)
    /\ rankPc = "awaitBatch" =>
          /\ Len(rankRequests) = Len(rankCompletions) + 1
          /\ ENABLED RerankBatch
    /\ RerankReturned =>
          /\ Len(rankRequests) = (Len(candidates) + 9) \div 10
          /\ Len(rankCompletions) = Len(rankRequests)

C14_Witness ==
    /\ RerankReturned
    /\ Len(rankRequests) = 3
    /\ rankCompletions[1].settled = "rejected"
    /\ ~rankCompletions[2].isJson /\ rankCompletions[2].hasContent
    /\ Len(rankedActivities) = 1
    /\ rankedActivities[1] = rankRequests[3][1]

\* C15 as stated: the result is the concatenation, in batch order, of every
\* successful batch's ranked_ids in the model's order, restricted to the ids
\* of candidates.
C15_ResultIsConcatenation ==
    RerankReturned => rankedActivities = ExpectedRanking

\* C15 (amended): when at least one id was accumulated, the result is the
\* concatenation, in batch order, of every successful batch's ranked_ids in
\* the model's order, restricted to the ids of candidates, with no
\* re-sorting across batches; when no id was accumulated it is the first
\* min(15, N) candidates in their order.
C15_ConcatenationOrFallback ==
    RerankReturned =>
        rankedActivities = IF Contributions(rankCompletions) = <<>>
                           THEN FirstCandidates(15)
                           ELSE ExpectedRanking

C15_Witness ==
    /\ RerankReturned
    /\ Len(rankCompletions) = 2
    /\ Len(Contribution(rankCompletions[1])) = 2
    /\ Len(Contribution(rankCompletions[2])) = 2
    /\ Len(rankedActivities) = 4
    /\ rankedActivities[1] = candidates[10]
    /\ rankedActivities[2] = candidates[1]
    /\ rankedActivities[3] = candidates[Len(candidates)]
    /\ rankedActivities[4] = candidates[11]

(***************************************************************************)
(* Properties of the synthesizer.                                          *)
(***************************************************************************)
\* C16: rerankActivities on an empty candidate list returns the empty list
\* and generateSummary on an empty activity list returns the fixed not-found
\* summary, both without a model call.
C16_EmptyInputNoModelCall ==
    /\ (RerankReturned /\ candidates = <<>>) =>
          /\ rankedActivities = <<>>
          /\ rankRequests = <<>>
          /\ rankCompletions = <<>>
    /\ rankPc = "awaitSummary" => topActivities # <<>>
    /\ (rankPc = "responded" /\ topActivities = <<>>) =>
          /\ summary = NotFoundSummary
          /\ summaryRequests = 0

C16_Witness ==
    /\ rankPc = "responded"
    /\ candidates = <<>>
    /\ topActivities = <<>>
    /\ summary = NotFoundSummary

\* the model path of the summary failed: the race rejected (timeout,
\* transport), the content was empty or not JSON, or the document does not
\* fit SummarySchema
SummaryFailed ==
    \/ summaryCompletion.settled = "rejected"
    \/ ~summaryCompletion.hasContent
    \/ ~summaryCompletion.isJson
    \/ summaryCompletion.doc.mainSummary.t # "string"
    \/ summaryCompletion.doc.sections = "invalid"
    \/ summaryCompletion.doc.timeSpent = "invalid"

\* C17: on a non-empty list generateSummary never throws; when the model
\* path fails it returns the fixed error summary, and otherwise the model's
\* document, which fits SummarySchema, without the keys the schema does not
\* know.
C17_SummaryValidatedOrError ==
    /\ rankPc = "awaitSummary" => ENABLED SummarySettle
    /\ (rankPc = "responded" /\ topActivities # <<>>) =>
          /\ summaryRequests = 1
          /\ IF SummaryFailed
             THEN summary = ErrorSummary
             ELSE /\ summary.mainSummary = summaryCompletion.doc.mainSummary
                  /\ summary.mainSummary.t = "string"
                  /\ summary.sections = summaryCompletion.doc.sections
                  /\ summary.sections # "invalid"
                  /\ summary.timeSpent = summaryCompletion.doc.timeSpent
                  /\ summary.timeSpent # "invalid"
                  /\ ~summary.extra

C17_Witness ==
    /\ rankPc = "responded"
    /\ topActivities # <<>>
    /\ ~SummaryFailed
    /\ summaryCompletion.doc.extra
    /\ summary = SummaryDoc(JStr("answer"), "valid", "valid", FALSE)

\* C20: a response cut off for length (finish_reason = length) is a failure
\* of the agent that asked for it: a rerank batch so answered adds no id, and
\* a summary so answered is replaced by the fixed error summary.
C20_TruncatedIsFailure ==
    /\ (RerankReturned
        /\ \A k \in 1..Len(rankCompletions) :
              \/ rankCompletions[k].finish_reason = "length"
              \/ BatchFailed(rankCompletions[k])) =>
          allRankedIds = <<>>
    /\ (rankPc = "responded" /\ topActivities # <<>>
        /\ summaryCompletion.finish_reason = "length") =>
          summary = ErrorSummary


(***************************************************************************)
(* Properties of the weekly report.                                        *)
(***************************************************************************)
\* the model path of the report failed
ReportFailed ==
    \/ reportCompletion.settled = "rejected"
    \/ ~reportCompletion.hasContent
    \/ ~reportCompletion.isJson
    \/ reportCompletion.doc.title.t # "string"
    \/ Len(reportCompletion.doc.keyActivities) \notin 3..5
    \/ reportCompletion.doc.rest # "valid"

\* what generateWeeklyReport does, seen on a call made on its own: it always
\* returns; null without a model call on an empty list, null on every failure
\* of the model path, the validated content otherwise
C18_AgentReturns ==
    /\ agentPc = "awaitModel" => ENABLED AgentSettle
    /\ (agentPc = "returned" /\ agentInput = {}) =>
          reportContent = Null /\ reportRequests = 0
    /\ (agentPc = "returned" /\ agentInput # {}) =>
          /\ reportRequests = 1
          /\ ReportFailed => reportContent = Null
          /\ ~ReportFailed => /\ ~reportContent.isNull
                              /\ reportContent.content.title = reportCompletion.doc.title

\* the row and the answer request p leaves when it answers after generation:
\* FAILED and an error for null, COMPLETED with the content and 201 otherwise
Settled(p, rows, answer) ==
    LET row == rows[posts[p].start]
    IN  IF posts[p].content.isNull
        THEN row.status = "FAILED" /\ answer.status = 500
        ELSE /\ row.status = "COMPLETED"
             /\ row.content = posts[p].content.content
             /\ answer = AnswerReport(201, row)

C18_StepSettles ==
    \A p \in PostIds :
        (posts[p].pc = "update" /\ posts'[p].pc = "responded") =>
            Settled(p, reportRows', posts'[p].answer)

C18_StepSettlesUnlessRejected ==
    \A p \in PostIds :
        (posts[p].pc = "update" /\ posts'[p].pc = "responded") =>
            \/ Settled(p, reportRows', posts'[p].answer)
            \/ reportRows' = reportRows /\ posts'[p].answer = Answer500

\* C18: generateWeeklyReport returns null on an empty list without a model
\* call and on every failure of the model path, and never throws; once POST
\* /api/reports has its result, null makes the week's record FAILED and the
\* answer an error, content makes it COMPLETED with that content, and the
\* record is not left PENDING by the request that generated.
C18_NullMeansFailed == []C18_AgentReturns /\ [][C18_StepSettles]_vars

\* C18 (amended): as above, unless the store rejects the update: the route
\* then answers 500 and the record stays as the upsert left it.
C18_NullMeansFailedUnlessRejected ==
    []C18_AgentReturns /\ [][C18_StepSettlesUnlessRejected]_vars

\* one request answered 500 after a null report and left its week FAILED, the
\* other answered 201 and left its week COMPLETED
C18_Witness ==
    \E p, q \in PostIds :
        /\ posts[p].pc = "responded" /\ posts[p].writes = 2
        /\ posts[p].content.isNull
        /\ posts[p].answer.status = 500
        /\ reportRows[posts[p].start].status = "FAILED"
        /\ posts[q].pc = "responded" /\ posts[q].writes = 2
        /\ posts[q].answer.status = 201
        /\ reportRows[posts[q].start].status = "COMPLETED"

\* request p is at its findFirst and its week has a COMPLETED report
C19_CompletedWeek(p) ==
    /\ posts[p].pc = "findFirst"
    /\ posts[p].valid
    /\ reportRows[posts[p].start].status = "COMPLETED"

\* request p is at its findMany and its week has no activities
C19_EmptyWeek(p) ==
    /\ posts[p].pc = "findMany"
    /\ posts[p].valid
    /\ ActivitiesOfWeek(zone, activityDays, posts[p].start, posts[p].start + 6) = {}

\* the step has answered request p without a model call and without a write
C19_Untouched(p) ==
    /\ posts'[p].pc = "responded"
    /\ reportRows' = reportRows
    /\ posts'[p].calls = 0 /\ posts'[p].writes = 0

\* a step in which a request learns that its week has a COMPLETED report, or
\* that its week has no activities, as stated: the report, or not-found
C19_StepFrameAlways ==
    \A p \in PostIds :
        /\ (C19_CompletedWeek(p) /\ posts'[p] # posts[p]) =>
              /\ C19_Untouched(p)
              /\ posts'[p].answer = AnswerReport(200, reportRows[posts[p].start])
        /\ (C19_EmptyWeek(p) /\ posts'[p] # posts[p]) =>
              /\ C19_Untouched(p)
              /\ posts'[p].answer.status = 404

\* C19 as stated: POST /api/reports for a week with a COMPLETED report answers
\* with that report, and for a week without activities answers not-found; no
\* model call is made and no report record is created or changed.
C19_NoCallNoWrite == [][C19_StepFrameAlways]_vars

\* the same step, the store being free to reject the lookup
C19_StepFrame ==
    \A p \in PostIds :
        /\ (C19_CompletedWeek(p) /\ posts'[p] # posts[p]) =>
              /\ C19_Untouched(p)
              /\ posts'[p].answer \in {AnswerReport(200, reportRows[posts[p].start]),
                                       Answer500}
        /\ (C19_EmptyWeek(p) /\ posts'[p] # posts[p]) =>
              /\ C19_Untouched(p)
              /\ posts'[p].answer \in {Answer404, Answer500}

\* C19, amended: POST /api/reports for a week with a COMPLETED report answers
\* with that report, and for a week without activities answers not-found,
\* unless the store rejects the lookup, which answers 500; in each of these
\* cases no model call is made and no report record is created or changed.
C19_NoCallNoWriteUnlessRejected == [][C19_StepFrame]_vars

\* one request was answered with the stored report of its week, another was
\* answered not-found for a week without activities; neither called the model
\* or wrote, and no row but the stored one exists
C19_Witness ==
    \E p, q \in PostIds :
        /\ posts[p].pc = "responded"
        /\ posts[p].answer = AnswerReport(200, reportRows[posts[p].start])
        /\ posts[p].answer.report.content = OldContent
        /\ posts[p].calls = 0 /\ posts[p].writes = 0
        /\ posts[q].pc = "responded"
        /\ posts[q].valid
        /\ posts[q].answer = Answer404
        /\ ActivitiesOfWeek(zone, activityDays, posts[q].start, posts[q].start + 6) = {}
        /\ reportRows[posts[q].start] = NoReport
        /\ posts[q].calls = 0 /\ posts[q].writes = 0
        /\ zone = "spring" /\ activityDays = {7, 14}


(***************************************************************************)
(* Properties of the counters and of the store during an import.           *)
(***************************************************************************)
\* the activity counts of the entries the log reports as saved
RECURSIVE SavedActivities(_)
SavedActivities(lines) ==
    IF lines = <<>> THEN 0
    ELSE (IF Head(lines).t = "SavedEntry" THEN Head(lines).n ELSE 0)
         + SavedActivities(Tail(lines))

\* C23: the 'total activities created' value of the final summary is the sum
\* of the activity counts of the entries counted as succeeded; an entry whose
\* persistence fails adds nothing to it.
C23_TotalCountsSucceededOnly ==
    (Returned /\ Len(entries) >= 1) =>
        /\ totalActivities = SavedActivities(log)
        /\ \A k \in 1..Len(log) :
              log[k].t = "SummaryTotalActivities" => log[k].n = SavedActivities(log)

\* the last event of the history after a step
LastEvent(t) == t[Len(t)]

\* C24: the step in which the create of activity j fails counts the entry as
\* failed once, leaves stored for its day-entry exactly the activities 1..j-1
\* of this entry (none of the older rows, none of j..N), and goes on to the
\* next entry or to the summary.
C24_StepFailedCreate ==
    (pc = "awaitCreate" /\ Len(trace') > Len(trace)
     /\ LastEvent(trace').t = "EntryDatabaseError") =>
        LET rows == RowsOf(activities', entryId)
        IN  /\ failureCount' = failureCount + 1
            /\ successCount' = successCount
            /\ Len(rows) = j - 1
            /\ \A k \in 1..(j - 1) : SameActivity(rows[k], processedData[k])
            /\ i' = i + 1
            /\ pc' = IF i < Len(entries) THEN "loop" ELSE "summary"

C24_PartialEntryStays == [][C24_StepFailedCreate]_vars

C24_Witness ==
    /\ pc = "returned"
    /\ \E k \in 1..Len(log) :
          /\ log[k].t = "FailedToSaveActivity" /\ log[k].n = 2 /\ log[k].i = 1
          /\ \E m \in 1..Len(log) : log[m].t = "RemovedExisting" /\ log[m].i = 1
    /\ Len(entries) = 2
    /\ Len(RowsOf(activities, 1)) = 1
    /\ SameActivity(RowsOf(activities, 1)[1], ActBug)
    /\ failureCount = 1
    /\ successCount = 1

\* the first line of an entry, without surrounding white space, is a date
\* YYYY-MM-DD
FirstLineIsDate(entryText) ==
    LET stop  == IF \E p \in 1..Len(entryText) : entryText[p] = "\n"
                 THEN CHOOSE p \in 1..Len(entryText) :
                         /\ entryText[p] = "\n"
                         /\ \A q \in 1..(p - 1) : entryText[q] # "\n"
                 ELSE Len(entryText) + 1
        inner == {p \in 1..(stop - 1) : entryText[p] \notin WhiteSpace}
    IN  /\ Cardinality(inner) = 10
        /\ \A p \in inner : \A q \in inner : (p < q) => \A m \in p..q : m \in inner
        /\ \A p \in inner :
              LET rank == Cardinality({q \in inner : q <= p})
              IN  IF rank \in {5, 8} THEN entryText[p] = "-" ELSE entryText[p] \in Digits

DatedEntries == {k \in 1..Len(entries) : FirstLineIsDate(entries[k])}

\* C25: in a run that reaches the summary every parsed entry is counted once,
\* as succeeded or as failed, and the model calls of the run are one for
\* every entry whose first line is a date, none for the others.
C25_EveryEntryCountedOnce ==
    /\ Len(responses) <= Cardinality(DatedEntries)
    /\ \A k \in 1..Len(responses) :
          /\ responses[k][1] \in DatedEntries
          /\ \A m \in 1..Len(responses) : responses[m][1] = responses[k][1] => m = k
    /\ (Returned /\ Len(entries) >= 1) =>
          /\ successCount + failureCount = Len(entries)
          /\ successCount = CountLines("SavedEntry")
          /\ Len(responses) = Cardinality(DatedEntries)
          /\ ModelCalls = Cardinality(DatedEntries)

C25_Witness ==
    /\ Returned
    /\ Len(entries) = 2
    /\ Cardinality(DatedEntries) = 1
    /\ Len(responses) = 1
    /\ successCount = 1
    /\ failureCount = 1

\* the response does not fit the contract of the import: no activities array,
\* or an activity with a field of the wrong type
SchemaMismatch(doc) ==
    \/ ~doc.hasActivities
    \/ \E k \in 1..Len(doc.activities) :
          \/ doc.activities[k].description.t # "string"
          \/ doc.activities[k].duration.t \notin {"number", "null"}
          \/ doc.activities[k].notes.t \notin {"string", "null"}
          \/ doc.activities[k].tags.t # "string"
          \/ doc.activities[k].categoryId.t # "string"

\* the extraction of an entry failed: model error, empty content, malformed
\* JSON, schema mismatch or a categoryId outside the prompt
ExtractionFailed(completion) ==
    \/ completion.settled = "rejected"
    \/ ~completion.hasContent
    \/ ~completion.isJson
    \/ SchemaMismatch(completion.doc)
    \/ OffendingIds(completion) # {}

\* no write was made for an entry with a malformed date or a failed extraction
C26_NoWriteForFailedEntry ==
    \A k \in 1..Len(trace) :
        trace[k].ev \in {"upsert", "deleteMany", "create"} =>
            /\ trace[k].i \in DatedEntries
            /\ \E m \in 1..Len(responses) :
                  /\ responses[m][1] = trace[k].i
                  /\ ~ExtractionFailed(responses[m][2])

\* the step that finds the date malformed, and the step that receives a
\* failed extraction, leave the three tables as they are and end the entry
C26_StepFrame ==
    /\ (pc = "loop" /\ i \notin DatedEntries) =>
          /\ store' = store
          /\ pc' \in {"loop", "summary"}
          /\ failureCount' = failureCount + 1
    /\ (pc = "awaitLLM" /\ Len(responses') = Len(responses) + 1
        /\ ExtractionFailed(LastEvent(responses')[2])) =>
          /\ store' = store
          /\ pc' \in {"loop", "summary"}
          /\ failureCount' = failureCount + 1

\* C26: an entry whose date is malformed or whose extraction fails leaves the
\* store unchanged: no day-entry is upserted, no activity created, and the
\* activities stored for that date are not deleted.
C26_FailedEntryLeavesStore == []C26_NoWriteForFailedEntry /\ [][C26_StepFrame]_vars

C26_Witness ==
    /\ Returned
    /\ Len(entries) = 1
    /\ Len(responses) = 1
    /\ responses[1][2].hasContent /\ ~responses[1][2].isJson
    /\ failureCount = 1
    /\ Len(RowsOf(activities, 1)) = 2
    /\ NoWrite

\* the extraction of an empty list goes on to the upsert, nothing counted yet
C29_StepExtracted ==
    (pc = "awaitLLM" /\ Len(responses') = Len(responses) + 1
     /\ ~ExtractionFailed(LastEvent(responses')[2])
     /\ LastEvent(responses')[2].doc.activities = <<>>) =>
          /\ pc' = "awaitUpsert"
          /\ processedData' = <<>>
          /\ counters' = counters

\* what the accepted upsert of an entry with an empty list has done
C29_Upserted ==
    /\ pc' = "awaitDelete"
    /\ Cardinality(EntriesOf(journalEntries', NewDate(zone, EntryDate(entries[i])))) = 1

\* what the accepted deleteMany of an entry with an empty list has done
C29_Succeeded ==
    /\ RowsOf(activities', entryId) = <<>>
    /\ Len(activities') = Len(activities) - Len(RowsOf(activities, entryId))
    /\ successCount' = successCount + 1
    /\ failureCount' = failureCount
    /\ pc' \in {"loop", "summary"}

\* the steps of an entry whose extraction gave an empty list, as stated: the
\* upsert and the deleteMany always go through
C29_StepEmptyListAlways ==
    /\ C29_StepExtracted
    /\ (pc = "awaitUpsert" /\ processedData = <<>> /\ pc' # pc) => C29_Upserted
    /\ (pc = "awaitDelete" /\ processedData = <<>> /\ pc' # pc) => C29_Succeeded

\* C29 as stated: an entry whose response is a schema-valid object with an
\* empty activities list is a full success: the day-entry is upserted, the
\* activities stored for the date are deleted, none is created, successCount
\* goes up by one and the date ends with no activity.
C29_EmptyListIsSuccess == [][C29_StepEmptyListAlways]_vars

\* the steps of an entry whose extraction gave an empty list: the store
\* accepts the call, or the entry is counted as failed and no activity is
\* touched
C29_StepEmptyList ==
    /\ C29_StepExtracted
    /\ (pc = "awaitUpsert" /\ processedData = <<>> /\ pc' # pc) =>
          IF LastEvent(trace').ev = "upsert"
          THEN C29_Upserted
          ELSE /\ failureCount' = failureCount + 1
               /\ successCount' = successCount
               /\ store' = store
    /\ (pc = "awaitDelete" /\ processedData = <<>> /\ pc' # pc) =>
          IF LastEvent(trace').t = "SavedEntry"
          THEN C29_Succeeded
          ELSE /\ failureCount' = failureCount + 1
               /\ successCount' = successCount
               /\ store' = store
    /\ (pc = "awaitUpsert" /\ processedData = <<>>
        /\ NewDate(zone, EntryDate(entries[i])) = InvalidDate) => pc' # "awaitDelete"
    /\ (pc = "awaitDelete" /\ processedData = <<>>) => pc' # "awaitCreate"

\* C29, amended: an entry whose response is a schema-valid object with an
\* empty activities list goes to the store like any other: when the store
\* accepts the upsert and the deleteMany the day-entry exists once, every
\* activity stored for the date is deleted, none is created, successCount
\* goes up by one and the date ends with no activity; when the date is one
\* new Date cannot read or the store rejects a call, the entry is counted as
\* failed and no stored activity is touched.
C29_EmptyListIsSuccessIfStored == [][C29_StepEmptyList]_vars

C29_Witness ==
    /\ Returned
    /\ Len(entries) = 1
    /\ Len(responses) = 1
    /\ responses[1][2].doc.hasActivities
    /\ responses[1][2].doc.activities = <<>>
    /\ successCount = 1
    /\ \E k \in 1..Len(log) : log[k].t = "RemovedExisting" /\ log[k].n = 2
    /\ \E k \in 1..Len(log) : log[k].t = "SavedEntry" /\ log[k].n = 0
    /\ RowsOf(activities, 1) = <<>>
    /\ Len(activities) = 1

(***************************************************************************)
(* The import page and transport chunking                                  *)
(***************************************************************************)
\* the non-empty lines of everything the route wrote
LinesSent == SelectSeq(SplitOn(sent, "\n"), NonEmpty)

\* C30: however the stream is cut into chunks, the log the page has
\* accumulated when the stream ends is the list of the non-empty lines of the
\* whole stream, in order, no line split in two
C30_LogIndependentOfChunking ==
    pagePc = "done" => progressLog = LinesSent

(***************************************************************************)
(* The timer bounds the wait of the three agents                           *)
(***************************************************************************)
\* the documented fallbacks: heuristic keywords, the fixed error summary, null
Fallback ==
    [keywords |-> IF raceAgent = "generateSearchTerms"
                  THEN HeuristicKeywords(raceQuery) ELSE <<>>,
     summary  |-> IF raceAgent = "generateSummary" THEN ErrorSummary ELSE NotFoundSummary,
     report   |-> Null]

C22_StepFirstEventDecides ==
    /\ (racePc = "awaiting" /\ timer' = "fired") =>
            racePc' = "returned" /\ raceValue' = Fallback
    /\ (racePc = "awaiting" /\ modelCall' = "settled") =>
            /\ racePc' = "returned"
            /\ raceValue' = AgentValue(raceAgent, raceQuery, raceCompletion')
    /\ racePc = "returned" => racePc' = "returned" /\ raceValue' = raceValue

\* C22: an agent that awaits its race returns even when the model call never
\* settles; the timer firing first yields the fallback, the model settling
\* first yields the value of its completion, and whatever happens after the
\* return leaves the returned value alone
C22_TimerBoundsTheWait ==
    /\ [][C22_StepFirstEventDecides]_vars
    /\ (racePc = "awaiting") ~> (racePc = "returned")

\* the timer won, and a model response that would have been accepted arrived
\* afterwards
C22_Witness ==
    /\ racePc = "returned"
    /\ raceFirst = "timer"
    /\ modelCall = "settled"
    /\ raceValue = Fallback
    /\ AgentValue(raceAgent, raceQuery, raceCompletion) # Fallback

(***************************************************************************)
(* Writers that share the store                                            *)
(***************************************************************************)
\* the rows stored for the day-entry of D1, in table order
RowsOfD1 == SelectSeq(activities, LAMBDA row : row.journalEntryId = FindEntry(journalEntries, NewDate(zone, D1)))

\* the rows run r creates for its entry
RowsOfRun(r) == [k \in 1..Len(runs[r].data) |-> Row(runs[r].entryId, runs[r].data[k])]

\* no handler other than the two import runs is in flight
OnlyRuns == journalPost.pc = "idle" /\ v1Post.pc = "idle" /\ delete.pc = "idle"

\* C27: when two import runs, and no other writer, have both saved their entry
\* for D1, the activities stored for D1 are those of exactly one of the two
\* runs
C27_OneRunsActivities ==
    (OnlyRuns /\ \A r \in RunIds : runs[r].pc = "saved") =>
        \E r \in RunIds : RowsOfD1 = RowsOfRun(r)

\* C21: a tag name created by the journal POST while an import run creates it
\* too fails neither of them: with no other request in flight, no run is
\* counted as failed over a name the journal POST inserted, and a journal
\* POST that answers 201 has stored its activity connected to the tag
C21_TagRaceTolerated ==
    (v1Post.pc = "idle" /\ delete.pc = "idle") =>
        /\ \A r \in RunIds :
              runs[r].pc = "failed" => runs[r].conflict \cap journalPost.created = {}
        /\ (journalPost.pc = "responded" /\ journalPost.status = 201) =>
              /\ Row(journalPost.entryId, ActPair).tags \subseteq tagTable
              /\ \E k \in 1..Len(activities) :
                    activities[k] = Row(journalPost.entryId, ActPair)

(***************************************************************************)
(* Requests for the same weekly report                                     *)
(***************************************************************************)
C28_StepCompletedStays ==
    \A w \in Weeks :
        reportRows[w].status = "COMPLETED" => reportRows'[w] = reportRows[w]

\* C28: once the report of a week is COMPLETED no request changes its status
\* or its content, whatever the interleaving of the requests
C28_CompletedIsTerminal == [][C28_StepCompletedStays]_vars

====
